---- MODULE Spec2Model ----
(***************************************************************************)
(* Model of the two-phase ledger protocol of manta-accounting's transfer   *)
(* module: TransferPost::validate (read-only validation that yields a      *)
(* TransferPostingKey) and TransferPostingKey::post (the mutation).        *)
(*                                                                         *)
(* Option<T> is modelled as a sequence of length 0 (None) or 1 (Some).     *)
(* Result<T, E> is modelled as a record [tag, detail]: tag "Ok" or the     *)
(* name of the error variant, detail the payload of the variant.           *)
(***************************************************************************)
EXTENDS Integers, Sequences, FiniteSets, TLC

VARIABLES
    ledger,     \* the TransferLedger: spent nullifiers, registered UTXOs, public balances
    slots,      \* the submissions in flight: life-cycle state, posting key, outcome
    vin,        \* SpecValidate: the arguments of one TransferPost::validate call
    vout,       \* SpecValidate: what that call returned and the steps it executed
    vpc,        \* SpecValidate: "ready" before the call, "done" after it
    tx,         \* SpecTransfer: the arguments of Transfer::new, the Transfer built
                \* from them and the call made on it
    idv,        \* SpecIdentity: an IdentityProof, the arguments of one
                \* identity_verification call and what it returned
    mx          \* SpecMatrix: a matrix, the operation applied to it and its outcome

vars == <<ledger, slots, vin, vout, vpc, tx, idv, mx>>

(***************************************************************************)
(* Bounds of the model.                                                    *)
(***************************************************************************)
MaxSenderPosts == 3
MaxReceiverPosts == 3
MaxPublic == 2
MaxKeys == 2
MaxShape == 2
MaxDim == 3
MaxRect == 2

None == <<>>
Some(x) == <<x>>
is_some(o) == Len(o) = 1
unwrap(o) == o[1]

SeqsUpTo(S, n) == UNION {[1..k -> S] : k \in 0..n}

(***************************************************************************)
(* Value domains.                                                          *)
(***************************************************************************)
Accounts == {"alice", "bob"}
AssetIds == {"X"}
AssetValues == {1, 2}
Proofs == {"valid_proof", "invalid_proof"}

\* A nullifier: the commitment decides relatedness, the outgoing note does not.
N1 == [commitment |-> 1, outgoing_note |-> "a"]
N1r == [commitment |-> 1, outgoing_note |-> "b"]
N2 == [commitment |-> 2, outgoing_note |-> "a"]
N3 == [commitment |-> 3, outgoing_note |-> "a"]
Nullifiers == {N1, N1r, N2, N3}

\* A UTXO: the commitment decides relatedness, the transparency flag does not.
U1 == [commitment |-> 1, is_transparent |-> FALSE]
U1r == [commitment |-> 1, is_transparent |-> TRUE]
U2 == [commitment |-> 2, is_transparent |-> FALSE]
U3 == [commitment |-> 3, is_transparent |-> FALSE]
Utxos == {U1, U1r, U2, U3}

SenderPostOf(n) == [utxo_accumulator_output |-> "root", nullifier |-> n]
StaleSenderPost == [utxo_accumulator_output |-> "stale", nullifier |-> N2]
SenderPosts == {SenderPostOf(n) : n \in Nullifiers} \cup {StaleSenderPost}
ReceiverPostOf(u) == [utxo |-> u]
ReceiverPosts == {ReceiverPostOf(u) : u \in Utxos}

(***************************************************************************)
(* Results.                                                                *)
(***************************************************************************)
Ok == [tag |-> "Ok", detail |-> <<>>]
Err(tag, detail) == [tag |-> tag, detail |-> detail]
is_ok(r) == r.tag = "Ok"

\* One executed step of a call: its name, whether it is a call into the
\* ledger, its arguments and whether it succeeded.
Step(name, is_ledger_call, args, ok) ==
    [step |-> name, ledger_call |-> is_ledger_call, args |-> args, ok |-> ok]

(***************************************************************************)
(* Shape rules.                                                            *)
(***************************************************************************)
has_public_participants(sources, sinks) == (sources + sinks) > 0

requires_authorization(senders) == senders > 0

has_sinks(sinks) == sinks > 0

(***************************************************************************)
(* Collaborators outside this module's source: relatedness, signature      *)
(* verification, the sender and receiver sub-protocols, the ledger.        *)
(***************************************************************************)
\* Independence::is_related on nullifiers and on UTXOs.
is_related(p, q) == p.commitment = q.commitment

\* The set of the elements of a sequence.
Range(seq) == {seq[i] : i \in DOMAIN seq}

\* manta_util::vec::all_unequal: no two distinct positions are `eq`, the
\* comparison being given as the set of the pairs it holds of.
all_unequal(slice, eq) ==
    \A i, j \in 1..Len(slice) : i # j => <<slice[i], slice[j]>> \notin eq

\* The payload a signature is computed over.
BodyWithAccountsRef(body, sink_accounts) ==
    [body |-> body, sink_accounts |-> sink_accounts]

\* AuthorizationSignature::verify: the signature verifies over the payload it
\* was made for and over no other.
verify(authorization_signature, body_with_accounts) ==
    authorization_signature.message = body_with_accounts

\* SenderLedger::is_unspent
is_unspent(L, nullifier) ==
    \A n \in L.nullifiers : ~is_related(n, nullifier)

\* SenderLedger::has_matching_utxo_accumulator_output
has_matching_utxo_accumulator_output(L, output) == output \in L.outputs

\* ReceiverLedger::is_not_registered
is_not_registered(L, utxo) ==
    \A u \in L.utxos : ~is_related(u, utxo)

\* SenderPost::validate
SenderPost_validate(post, L) ==
    IF ~has_matching_utxo_accumulator_output(L, post.utxo_accumulator_output)
    THEN [result |-> Err("Sender", <<"InvalidUtxoAccumulatorOutput">>), key |-> None]
    ELSE IF ~is_unspent(L, post.nullifier)
    THEN [result |-> Err("Sender", <<"AssetSpent">>), key |-> None]
    ELSE [result |-> Ok,
          key |-> Some([utxo_accumulator_output |-> post.utxo_accumulator_output,
                        nullifier |-> post.nullifier])]

\* ReceiverPost::validate
ReceiverPost_validate(post, L) ==
    IF ~is_not_registered(L, post.utxo)
    THEN [result |-> Err("Receiver", <<"AssetRegistered">>), key |-> None]
    ELSE [result |-> Ok, key |-> Some([utxo |-> post.utxo])]

\* The first position of `pairs` that is not among the `valid` pairs, 0 when
\* there is none.
FirstInvalid(pairs, valid) ==
    IF \A i \in 1..Len(pairs) : pairs[i] \in valid THEN 0
    ELSE CHOOSE i \in 1..Len(pairs) :
            /\ pairs[i] \notin valid
            /\ \A j \in 1..(i - 1) : pairs[j] \in valid

\* A (account, amount) pair, as `zip` yields it.
Pair(account, value) == [account |-> account, value |-> value]

has_balance(L, pair) ==
    /\ pair.account \in DOMAIN L.balances
    /\ L.balances[pair.account] >= pair.value

account_exists(L, pair) == pair.account \in DOMAIN L.balances

\* TransferLedger::check_source_accounts
check_source_accounts(L, asset_id, sources) ==
    LET bad == FirstInvalid(sources, {p \in Range(sources) : has_balance(L, p)}) IN
    IF bad = 0
    THEN [result |-> Ok, accounts |-> sources]
    ELSE [result |-> Err("InvalidSourceAccount",
                         <<sources[bad].account, asset_id, sources[bad].value>>),
          accounts |-> <<>>]

\* TransferLedger::check_sink_accounts
check_sink_accounts(L, asset_id, sinks) ==
    LET bad == FirstInvalid(sinks, {p \in Range(sinks) : account_exists(L, p)}) IN
    IF bad = 0
    THEN [result |-> Ok, accounts |-> sinks]
    ELSE [result |-> Err("InvalidSinkAccount",
                         <<sinks[bad].account, asset_id, sinks[bad].value>>),
          accounts |-> <<>>]

\* TransferLedger::is_valid: verifies the proof of the key reference and
\* answers with the valid-proof marker and the ledger event.
is_valid(L, posting_key) ==
    IF posting_key.proof = "valid_proof"
    THEN [result |-> Ok,
          proof |-> Some("ValidProof"),
          event |-> Some([asset_id |-> posting_key.asset_id,
                          sources |-> posting_key.sources,
                          sinks |-> posting_key.sinks])]
    ELSE [result |-> Err("InvalidProof", <<>>), proof |-> None, event |-> None]

(***************************************************************************)
(* TransferPost: validation.                                               *)
(***************************************************************************)
\* zip that pairs the accounts, taken from the back, with the values.
zip_reversed(accounts, values) ==
    [i \in 1..(IF Len(accounts) < Len(values) THEN Len(accounts) ELSE Len(values))
        |-> [account |-> accounts[Len(accounts) + 1 - i], value |-> values[i]]]

\* Zips accounts with values, as `accounts.into_iter().zip(values)` does.
zip(accounts, values) ==
    [i \in 1..(IF Len(accounts) < Len(values) THEN Len(accounts) ELSE Len(values))
        |-> Pair(accounts[i], values[i])]

\* has_valid_authorization_signature that verifies over the body alone.
has_valid_authorization_signature_ignoring_sinks(self) ==
    LET required == requires_authorization(Len(self.body.sender_posts)) IN
    IF is_some(self.authorization_signature) /\ required
    THEN IF unwrap(self.authorization_signature).message.body = self.body
         THEN Ok
         ELSE Err("BadSignature", <<>>)
    ELSE IF is_some(self.authorization_signature) /\ ~required
    THEN Err("InvalidShape", <<>>)
    ELSE IF ~is_some(self.authorization_signature) /\ required
    THEN Err("MissingSignature", <<>>)
    ELSE Ok

\* TransferPost::has_valid_authorization_signature
has_valid_authorization_signature(self) ==
    LET required == requires_authorization(Len(self.body.sender_posts)) IN
    IF is_some(self.authorization_signature) /\ required
    THEN LET body_with_accounts == BodyWithAccountsRef(self.body, self.sink_accounts) IN
         IF verify(unwrap(self.authorization_signature), body_with_accounts)
         THEN Ok
         ELSE Err("BadSignature", <<>>)
    ELSE IF is_some(self.authorization_signature) /\ ~required
    THEN Err("InvalidShape", <<>>)
    ELSE IF ~is_some(self.authorization_signature) /\ required
    THEN Err("MissingSignature", <<>>)
    ELSE Ok

\* What check_public_participants answers: the result, the validated account
\* tokens and the steps executed.
Participants(result, sources, sinks, trace) ==
    [result |-> result, sources |-> sources, sinks |-> sinks, trace |-> trace]

ShapeStep(ok) == Step("check_shape", FALSE, <<>>, ok)

\* check_public_participants that asks the ledger about the sinks only when
\* there are no sources.
check_public_participants_sinks_without_sources(asset_id, source_accounts, source_values, sink_accounts, sink_values, L) ==
    LET sources == Len(source_values)
        sinks == Len(sink_values)
    IN
    IF has_public_participants(sources, sinks) # is_some(asset_id)
    THEN Participants(Err("InvalidShape", <<>>), <<>>, <<>>, <<ShapeStep(FALSE)>>)
    ELSE IF Len(source_accounts) # sources
    THEN Participants(Err("InvalidShape", <<>>), <<>>, <<>>, <<ShapeStep(FALSE)>>)
    ELSE IF Len(sink_accounts) # sinks
    THEN Participants(Err("InvalidShape", <<>>), <<>>, <<>>, <<ShapeStep(FALSE)>>)
    ELSE
    LET source_pairs == zip(source_accounts, source_values)
        src == IF sources > 0
               THEN check_source_accounts(L, unwrap(asset_id), source_pairs)
               ELSE [result |-> Ok, accounts |-> <<>>]
        src_trace == IF sources > 0
                     THEN <<Step("check_source_accounts", TRUE,
                                 <<unwrap(asset_id), source_pairs>>, is_ok(src.result))>>
                     ELSE <<>>
    IN
    IF ~is_ok(src.result)
    THEN Participants(src.result, <<>>, <<>>, <<ShapeStep(TRUE)>> \o src_trace)
    ELSE
    LET sink_pairs == zip(sink_accounts, sink_values)
        snk == IF sinks > 0 /\ sources = 0
               THEN check_sink_accounts(L, unwrap(asset_id), sink_pairs)
               ELSE [result |-> Ok, accounts |-> <<>>]
        snk_trace == IF sinks > 0 /\ sources = 0
                     THEN <<Step("check_sink_accounts", TRUE,
                                 <<unwrap(asset_id), sink_pairs>>, is_ok(snk.result))>>
                     ELSE <<>>
    IN
    IF ~is_ok(snk.result)
    THEN Participants(snk.result, <<>>, <<>>, <<ShapeStep(TRUE)>> \o src_trace \o snk_trace)
    ELSE Participants(Ok, src.accounts, snk.accounts,
                      <<ShapeStep(TRUE)>> \o src_trace \o snk_trace)

\* TransferPost::check_public_participants
check_public_participants(asset_id, source_accounts, source_values, sink_accounts, sink_values, L) ==
    LET sources == Len(source_values)
        sinks == Len(sink_values)
    IN
    IF has_public_participants(sources, sinks) # is_some(asset_id)
    THEN Participants(Err("InvalidShape", <<>>), <<>>, <<>>, <<ShapeStep(FALSE)>>)
    ELSE IF Len(source_accounts) # sources
    THEN Participants(Err("InvalidShape", <<>>), <<>>, <<>>, <<ShapeStep(FALSE)>>)
    ELSE IF Len(sink_accounts) # sinks
    THEN Participants(Err("InvalidShape", <<>>), <<>>, <<>>, <<ShapeStep(FALSE)>>)
    ELSE
    LET source_pairs == zip(source_accounts, source_values)
        src == IF sources > 0
               THEN check_source_accounts(L, unwrap(asset_id), source_pairs)
               ELSE [result |-> Ok, accounts |-> <<>>]
        src_trace == IF sources > 0
                     THEN <<Step("check_source_accounts", TRUE,
                                 <<unwrap(asset_id), source_pairs>>, is_ok(src.result))>>
                     ELSE <<>>
    IN
    IF ~is_ok(src.result)
    THEN Participants(src.result, <<>>, <<>>, <<ShapeStep(TRUE)>> \o src_trace)
    ELSE
    LET sink_pairs == zip(sink_accounts, sink_values)
        snk == IF sinks > 0
               THEN check_sink_accounts(L, unwrap(asset_id), sink_pairs)
               ELSE [result |-> Ok, accounts |-> <<>>]
        snk_trace == IF sinks > 0
                     THEN <<Step("check_sink_accounts", TRUE,
                                 <<unwrap(asset_id), sink_pairs>>, is_ok(snk.result))>>
                     ELSE <<>>
    IN
    IF ~is_ok(snk.result)
    THEN Participants(snk.result, <<>>, <<>>, <<ShapeStep(TRUE)>> \o src_trace \o snk_trace)
    ELSE Participants(Ok, src.accounts, snk.accounts,
                      <<ShapeStep(TRUE)>> \o src_trace \o snk_trace)

\* What validating a list of sender or receiver posts answers.
Collected(result, keys, trace) == [result |-> result, keys |-> keys, trace |-> trace]

\* `sender_posts.into_iter().map(|s| s.validate(ledger)).collect::<Result<Vec<_>, _>>()`:
\* the posts are validated in order and the first error ends the iteration.
RECURSIVE validate_senders(_, _)
validate_senders(sender_posts, L) ==
    IF sender_posts = <<>> THEN Collected(Ok, <<>>, <<>>)
    ELSE
    LET v == SenderPost_validate(Head(sender_posts), L)
        step == Step("SenderPost::validate", TRUE, <<Head(sender_posts)>>, is_ok(v.result))
    IN
    IF ~is_ok(v.result) THEN Collected(v.result, <<>>, <<step>>)
    ELSE LET rest == validate_senders(Tail(sender_posts), L) IN
         IF ~is_ok(rest.result) THEN Collected(rest.result, <<>>, <<step>> \o rest.trace)
         ELSE Collected(Ok, <<unwrap(v.key)>> \o rest.keys, <<step>> \o rest.trace)

\* `receiver_posts.into_iter().map(|r| r.validate(ledger)).collect::<Result<Vec<_>, _>>()`
RECURSIVE validate_receivers(_, _)
validate_receivers(receiver_posts, L) ==
    IF receiver_posts = <<>> THEN Collected(Ok, <<>>, <<>>)
    ELSE
    LET v == ReceiverPost_validate(Head(receiver_posts), L)
        step == Step("ReceiverPost::validate", TRUE, <<Head(receiver_posts)>>, is_ok(v.result))
    IN
    IF ~is_ok(v.result) THEN Collected(v.result, <<>>, <<step>>)
    ELSE LET rest == validate_receivers(Tail(receiver_posts), L) IN
         IF ~is_ok(rest.result) THEN Collected(rest.result, <<>>, <<step>> \o rest.trace)
         ELSE Collected(Ok, <<unwrap(v.key)>> \o rest.keys, <<step>> \o rest.trace)

\* The key reference handed to TransferLedger::is_valid.
TransferPostingKeyRef(authorization_key, asset_id, sources, senders, receivers, sinks, proof) ==
    [authorization_key |-> authorization_key, asset_id |-> asset_id,
     sources |-> sources, senders |-> senders, receivers |-> receivers,
     sinks |-> sinks, proof |-> proof]

\* The key a successful validation yields.
TransferPostingKey(asset_id, source_posting_keys, sender_posting_keys, receiver_posting_keys, sink_posting_keys, proof, event) ==
    [asset_id |-> asset_id,
     source_posting_keys |-> source_posting_keys,
     sender_posting_keys |-> sender_posting_keys,
     receiver_posting_keys |-> receiver_posting_keys,
     sink_posting_keys |-> sink_posting_keys,
     proof |-> proof,
     event |-> event]

\* What TransferPost::validate answers: the result, the posting key (Some
\* exactly on Ok), the steps executed and the ledger as the call leaves it.
Validated(result, key, trace, L) ==
    [result |-> result, key |-> key, trace |-> trace, ledger |-> L]

SignatureStep(ok) == Step("has_valid_authorization_signature", FALSE, <<>>, ok)
SpendStep(ok) == Step("all_unequal(nullifier)", FALSE, <<>>, ok)
MintStep(ok) == Step("all_unequal(utxo)", FALSE, <<>>, ok)

\* check_proof that hands the sink tokens to is_valid as sources and the
\* source tokens as sinks.
check_proof_swapped(self, L, pp, senders, receivers, t) ==
    LET authorization_key ==
            IF is_some(self.authorization_signature)
            THEN Some(unwrap(self.authorization_signature).authorization_key)
            ELSE None
        ref == TransferPostingKeyRef(authorization_key, self.body.asset_id,
                   pp.sinks, senders, receivers, pp.sources, self.body.proof)
        v == is_valid(L, ref)
        t2 == t \o <<Step("is_valid", TRUE, <<ref>>, is_ok(v.result))>>
    IN
    IF ~is_ok(v.result) THEN Validated(v.result, None, t2, L)
    ELSE Validated(Ok,
                   Some(TransferPostingKey(self.body.asset_id, pp.sources, senders,
                                           receivers, pp.sinks, unwrap(v.proof),
                                           unwrap(v.event))),
                   t2, L)

\* check_proof with the answer of is_valid ignored: a key is built either way.
check_proof_unchecked(self, L, pp, senders, receivers, t) ==
    LET authorization_key ==
            IF is_some(self.authorization_signature)
            THEN Some(unwrap(self.authorization_signature).authorization_key)
            ELSE None
        ref == TransferPostingKeyRef(authorization_key, self.body.asset_id,
                   pp.sources, senders, receivers, pp.sinks, self.body.proof)
        v == is_valid(L, ref)
        t2 == t \o <<Step("is_valid", TRUE, <<ref>>, is_ok(v.result))>>
    IN
    Validated(Ok,
              Some(TransferPostingKey(self.body.asset_id, pp.sources, senders,
                                      receivers, pp.sinks, "ValidProof",
                                      [asset_id |-> self.body.asset_id,
                                       sources |-> pp.sources, sinks |-> pp.sinks])),
              t2, L)

\* TransferPost::validate, from the call of is_valid on: `pp` holds the
\* validated accounts, `senders` and `receivers` the posting keys, `t` the
\* steps executed so far.
check_proof(self, L, pp, senders, receivers, t) ==
    LET authorization_key ==
            IF is_some(self.authorization_signature)
            THEN Some(unwrap(self.authorization_signature).authorization_key)
            ELSE None
        ref == TransferPostingKeyRef(authorization_key, self.body.asset_id,
                   pp.sources, senders, receivers, pp.sinks, self.body.proof)
        v == is_valid(L, ref)
        t2 == t \o <<Step("is_valid", TRUE, <<ref>>, is_ok(v.result))>>
    IN
    IF ~is_ok(v.result) THEN Validated(v.result, None, t2, L)
    ELSE Validated(Ok,
                   Some(TransferPostingKey(self.body.asset_id, pp.sources, senders,
                                           receivers, pp.sinks, unwrap(v.proof),
                                           unwrap(v.event))),
                   t2, L)

\* validate_posts that validates the receiver posts before the sender posts.
validate_posts_receivers_first(self, L, pp, t) ==
    LET rcv == validate_receivers(self.body.receiver_posts, L) IN
    IF ~is_ok(rcv.result) THEN Validated(rcv.result, None, t \o rcv.trace, L)
    ELSE
    LET snd == validate_senders(self.body.sender_posts, L) IN
    IF ~is_ok(snd.result) THEN Validated(snd.result, None, t \o rcv.trace \o snd.trace, L)
    ELSE check_proof(self, L, pp, snd.keys, rcv.keys, t \o rcv.trace \o snd.trace)

\* TransferPost::validate, from the validation of the sender posts on.
validate_posts(self, L, pp, t) ==
    LET snd == validate_senders(self.body.sender_posts, L) IN
    IF ~is_ok(snd.result) THEN Validated(snd.result, None, t \o snd.trace, L)
    ELSE
    LET rcv == validate_receivers(self.body.receiver_posts, L) IN
    IF ~is_ok(rcv.result) THEN Validated(rcv.result, None, t \o snd.trace \o rcv.trace, L)
    ELSE check_proof(self, L, pp, snd.keys, rcv.keys, t \o snd.trace \o rcv.trace)

\* check_unique that compares nullifiers and UTXOs by equality.
check_unique_by_equality(self, L, pp, t) ==
    IF ~all_unequal(self.body.sender_posts,
                    {pq \in Range(self.body.sender_posts) \X Range(self.body.sender_posts) :
                        pq[1].nullifier = pq[2].nullifier})
    THEN Validated(Err("DuplicateSpend", <<>>), None, t \o <<SpendStep(FALSE)>>, L)
    ELSE IF ~all_unequal(self.body.receiver_posts,
                    {pq \in Range(self.body.receiver_posts) \X Range(self.body.receiver_posts) :
                        pq[1].utxo = pq[2].utxo})
    THEN Validated(Err("DuplicateMint", <<>>), None,
                   t \o <<SpendStep(TRUE), MintStep(FALSE)>>, L)
    ELSE validate_posts(self, L, pp, t \o <<SpendStep(TRUE), MintStep(TRUE)>>)

\* TransferPost::validate, from the duplicate checks on.
check_unique(self, L, pp, t) ==
    IF ~all_unequal(self.body.sender_posts,
                    {pq \in Range(self.body.sender_posts) \X Range(self.body.sender_posts) :
                        is_related(pq[1].nullifier, pq[2].nullifier)})
    THEN Validated(Err("DuplicateSpend", <<>>), None, t \o <<SpendStep(FALSE)>>, L)
    ELSE IF ~all_unequal(self.body.receiver_posts,
                    {pq \in Range(self.body.receiver_posts) \X Range(self.body.receiver_posts) :
                        is_related(pq[1].utxo, pq[2].utxo)})
    THEN Validated(Err("DuplicateMint", <<>>), None,
                   t \o <<SpendStep(TRUE), MintStep(FALSE)>>, L)
    ELSE validate_posts(self, L, pp, t \o <<SpendStep(TRUE), MintStep(TRUE)>>)

\* validate that checks the public participants before the signature.
validate_participants_first(self, L, source_accounts, sink_accounts) ==
    LET pp == check_public_participants(self.body.asset_id, source_accounts,
                  self.body.sources, sink_accounts, self.body.sinks, L)
        sig == has_valid_authorization_signature(self)
    IN
    IF ~is_ok(pp.result) THEN Validated(pp.result, None, pp.trace, L)
    ELSE IF ~is_ok(sig)
    THEN Validated(Err("InvalidAuthorizationSignature", <<sig.tag>>), None,
                   pp.trace \o <<SignatureStep(FALSE)>>, L)
    ELSE check_unique(self, L, pp, pp.trace \o <<SignatureStep(TRUE)>>)

\* validate that spends the nullifiers of the post while validating it.
validate_spending(self, L, source_accounts, sink_accounts) ==
    LET sig == has_valid_authorization_signature(self)
        pp == check_public_participants(self.body.asset_id, source_accounts,
                  self.body.sources, sink_accounts, self.body.sinks, L)
        t == <<SignatureStep(TRUE)>> \o pp.trace
        r == IF ~is_ok(sig)
             THEN Validated(Err("InvalidAuthorizationSignature", <<sig.tag>>), None,
                            <<SignatureStep(FALSE)>>, L)
             ELSE IF ~is_ok(pp.result) THEN Validated(pp.result, None, t, L)
             ELSE check_unique(self, L, pp, t)
    IN [r EXCEPT !.ledger.nullifiers =
            @ \cup {self.body.sender_posts[i].nullifier : i \in DOMAIN self.body.sender_posts}]

\* TransferPost::validate
validate(self, L, source_accounts, sink_accounts) ==
    LET sig == has_valid_authorization_signature(self) IN
    IF ~is_ok(sig)
    THEN Validated(Err("InvalidAuthorizationSignature", <<sig.tag>>), None,
                   <<SignatureStep(FALSE)>>, L)
    ELSE
    LET pp == check_public_participants(self.body.asset_id, source_accounts,
                  self.body.sources, sink_accounts, self.body.sinks, L)
        t == <<SignatureStep(TRUE)>> \o pp.trace
    IN
    IF ~is_ok(pp.result) THEN Validated(pp.result, None, t, L)
    ELSE check_unique(self, L, pp, t)

(***************************************************************************)
(* TransferPostingKey: the mutation.                                       *)
(***************************************************************************)
\* What a mutating ledger call answers: the result and the ledger after it.
Mutated(result, L) == [result |-> result, ledger |-> L]

\* SenderLedger::spend: marks the nullifier spent; the ledger refuses a
\* nullifier related to one it has already spent.
spend(L, key) ==
    IF ~is_unspent(L, key.nullifier)
    THEN Mutated(Err("LedgerError", <<"spend">>), L)
    ELSE Mutated(Ok, [L EXCEPT !.nullifiers = @ \cup {key.nullifier}])

\* ReceiverLedger::register: inserts the UTXO; the ledger refuses a UTXO
\* related to one it has already registered.
register(L, key) ==
    IF ~is_not_registered(L, key.utxo)
    THEN Mutated(Err("LedgerError", <<"register">>), L)
    ELSE Mutated(Ok, [L EXCEPT !.utxos = @ \cup {key.utxo}])

RECURSIVE SumFor(_, _)
\* The sum of the amounts of `pairs` that name `account`.
SumFor(pairs, account) ==
    IF pairs = <<>> THEN 0
    ELSE (IF Head(pairs).account = account THEN Head(pairs).value ELSE 0)
         + SumFor(Tail(pairs), account)

\* TransferLedger::update_public_balances: withdraws every source amount and
\* deposits every sink amount, or refuses the whole update.
update_public_balances(L, asset_id, sources, sinks, proof) ==
    IF \E a \in DOMAIN L.balances : SumFor(sources, a) > L.balances[a]
    THEN Mutated(Err("LedgerError", <<"update_public_balances">>), L)
    ELSE Mutated(Ok, [L EXCEPT !.balances =
            [a \in DOMAIN L.balances |->
                (L.balances[a] - SumFor(sources, a)) + SumFor(sinks, a)]])

\* What posting a list of keys answers: the result, the ledger after it and
\* the mutating calls made.
Posted(result, L, trace) == [result |-> result, ledger |-> L, trace |-> trace]

\* SenderPostingKey::post_all: spends the keys in order; the first error ends it.
RECURSIVE SenderPostingKey_post_all(_, _)
SenderPostingKey_post_all(keys, L) ==
    IF keys = <<>> THEN Posted(Ok, L, <<>>)
    ELSE
    LET m == spend(L, Head(keys))
        step == Step("spend", TRUE, <<Head(keys).nullifier>>, is_ok(m.result))
    IN
    IF ~is_ok(m.result) THEN Posted(m.result, m.ledger, <<step>>)
    ELSE LET rest == SenderPostingKey_post_all(Tail(keys), m.ledger) IN
         Posted(rest.result, rest.ledger, <<step>> \o rest.trace)

\* ReceiverPostingKey::post_all: registers the keys in order; the first error ends it.
RECURSIVE ReceiverPostingKey_post_all(_, _)
ReceiverPostingKey_post_all(keys, L) ==
    IF keys = <<>> THEN Posted(Ok, L, <<>>)
    ELSE
    LET m == register(L, Head(keys))
        step == Step("register", TRUE, <<Head(keys).utxo>>, is_ok(m.result))
    IN
    IF ~is_ok(m.result) THEN Posted(m.result, m.ledger, <<step>>)
    ELSE LET rest == ReceiverPostingKey_post_all(Tail(keys), m.ledger) IN
         Posted(rest.result, rest.ledger, <<step>> \o rest.trace)

\* TransferPostingKey::post with the receivers posted before the senders.
TransferPostingKey_post_receivers_first(self, L) ==
    LET proof == self.proof
        rcv == ReceiverPostingKey_post_all(self.receiver_posting_keys, L)
        snd == SenderPostingKey_post_all(self.sender_posting_keys, rcv.ledger)
        t2 == rcv.trace \o snd.trace
        upd == update_public_balances(snd.ledger, unwrap(self.asset_id),
                   self.source_posting_keys, self.sink_posting_keys, proof)
    IN
    IF ~is_ok(rcv.result)
    THEN [result |-> rcv.result, event |-> None, ledger |-> rcv.ledger, trace |-> rcv.trace]
    ELSE IF ~is_ok(snd.result)
    THEN [result |-> snd.result, event |-> None, ledger |-> snd.ledger, trace |-> t2]
    ELSE IF is_some(self.asset_id)
    THEN [result |-> upd.result,
          event |-> IF is_ok(upd.result) THEN Some(self.event) ELSE None,
          ledger |-> upd.ledger,
          trace |-> t2 \o <<Step("update_public_balances", TRUE,
                                 <<unwrap(self.asset_id), self.source_posting_keys,
                                   self.sink_posting_keys, proof>>,
                                 is_ok(upd.result))>>]
    ELSE [result |-> Ok, event |-> Some(self.event), ledger |-> snd.ledger, trace |-> t2]

\* TransferPostingKey::post with the result of posting the senders dropped.
TransferPostingKey_post_ignoring_senders(self, L) ==
    LET proof == self.proof
        snd == SenderPostingKey_post_all(self.sender_posting_keys, L)
        rcv == ReceiverPostingKey_post_all(self.receiver_posting_keys, snd.ledger)
        t2 == snd.trace \o rcv.trace
        upd == update_public_balances(rcv.ledger, unwrap(self.asset_id),
                   self.source_posting_keys, self.sink_posting_keys, proof)
    IN
    IF ~is_ok(rcv.result)
    THEN [result |-> rcv.result, event |-> None, ledger |-> rcv.ledger, trace |-> t2]
    ELSE IF is_some(self.asset_id)
    THEN [result |-> upd.result,
          event |-> IF is_ok(upd.result) THEN Some(self.event) ELSE None,
          ledger |-> upd.ledger,
          trace |-> t2 \o <<Step("update_public_balances", TRUE,
                                 <<unwrap(self.asset_id), self.source_posting_keys,
                                   self.sink_posting_keys, proof>>,
                                 is_ok(upd.result))>>]
    ELSE [result |-> Ok, event |-> Some(self.event), ledger |-> rcv.ledger, trace |-> t2]

\* What TransferPostingKey::post answers: the result, the event (Some exactly
\* on Ok), the ledger after it and the mutating calls made.
PostOutcome(result, event, L, trace) ==
    [result |-> result, event |-> event, ledger |-> L, trace |-> trace]

\* TransferPostingKey::post that gives the ledger back as it found it when a
\* step fails.
TransferPostingKey_post_with_rollback(self, L) ==
    LET proof == self.proof
        snd == SenderPostingKey_post_all(self.sender_posting_keys, L)
    IN
    IF ~is_ok(snd.result) THEN PostOutcome(snd.result, None, L, snd.trace)
    ELSE
    LET rcv == ReceiverPostingKey_post_all(self.receiver_posting_keys, snd.ledger)
        t2 == snd.trace \o rcv.trace
    IN
    IF ~is_ok(rcv.result) THEN PostOutcome(rcv.result, None, L, t2)
    ELSE
    IF is_some(self.asset_id)
    THEN LET upd == update_public_balances(rcv.ledger, unwrap(self.asset_id),
                        self.source_posting_keys, self.sink_posting_keys, proof)
             t3 == t2 \o <<Step("update_public_balances", TRUE,
                                <<unwrap(self.asset_id), self.source_posting_keys,
                                  self.sink_posting_keys, proof>>,
                                is_ok(upd.result))>>
         IN
         IF ~is_ok(upd.result) THEN PostOutcome(upd.result, None, L, t3)
         ELSE PostOutcome(Ok, Some(self.event), upd.ledger, t3)
    ELSE PostOutcome(Ok, Some(self.event), rcv.ledger, t2)

\* TransferPostingKey::post
TransferPostingKey_post(self, L) ==
    LET proof == self.proof
        snd == SenderPostingKey_post_all(self.sender_posting_keys, L)
    IN
    IF ~is_ok(snd.result) THEN PostOutcome(snd.result, None, snd.ledger, snd.trace)
    ELSE
    LET rcv == ReceiverPostingKey_post_all(self.receiver_posting_keys, snd.ledger)
        t2 == snd.trace \o rcv.trace
    IN
    IF ~is_ok(rcv.result) THEN PostOutcome(rcv.result, None, rcv.ledger, t2)
    ELSE
    IF is_some(self.asset_id)
    THEN LET upd == update_public_balances(rcv.ledger, unwrap(self.asset_id),
                        self.source_posting_keys, self.sink_posting_keys, proof)
             t3 == t2 \o <<Step("update_public_balances", TRUE,
                                <<unwrap(self.asset_id), self.source_posting_keys,
                                  self.sink_posting_keys, proof>>,
                                is_ok(upd.result))>>
         IN
         IF ~is_ok(upd.result) THEN PostOutcome(upd.result, None, upd.ledger, t3)
         ELSE PostOutcome(Ok, Some(self.event), upd.ledger, t3)
    ELSE PostOutcome(Ok, Some(self.event), rcv.ledger, t2)

\* TransferPost::post that returns the error of the mutation phase as it is.
TransferPost_post_unwrapped(self, L, source_accounts, sink_accounts) ==
    LET v == validate(self, L, source_accounts, sink_accounts) IN
    IF ~is_ok(v.result) THEN PostOutcome(v.result, None, v.ledger, v.trace)
    ELSE LET p == TransferPostingKey_post(unwrap(v.key), v.ledger) IN
         PostOutcome(p.result, p.event, p.ledger, v.trace \o p.trace)

\* TransferPost::post: validate, then post the key, an error of the mutation
\* phase wrapped as UnexpectedError.
TransferPost_post(self, L, source_accounts, sink_accounts) ==
    LET v == validate(self, L, source_accounts, sink_accounts) IN
    IF ~is_ok(v.result) THEN PostOutcome(v.result, None, v.ledger, v.trace)
    ELSE LET p == TransferPostingKey_post(unwrap(v.key), v.ledger) IN
         IF ~is_ok(p.result)
         THEN PostOutcome(Err("UnexpectedError", <<p.result>>), None, p.ledger,
                          v.trace \o p.trace)
         ELSE PostOutcome(Ok, p.event, p.ledger, v.trace \o p.trace)

(***************************************************************************)
(* Transfer: the fixed-shape builder.  The shape constants SOURCES,        *)
(* SENDERS, RECEIVERS and SINKS are the lengths of the four arrays.        *)
(***************************************************************************)
\* An Authorization: the authorization key it exposes and the spending key
\* it was derived from.
Authorization(spending_key) ==
    [authorization_key |-> <<"authorization_key", spending_key>>,
     spending_key |-> spending_key]

SpendingKeys == {"sk1", "sk2"}
Authorizations == {Authorization(k) : k \in SpendingKeys}
AllAssetIds == {"X", "Y"}

\* A Sender and a Receiver: the secret asset and the public part posted.
Sender(id, value, position) ==
    [asset |-> [id |-> id, value |-> value],
     utxo_accumulator_output |-> "root",
     nullifier |-> [commitment |-> position, outgoing_note |-> "a"]]

Receiver(id, value, position) ==
    [asset |-> [id |-> id, value |-> value],
     utxo |-> [commitment |-> position, is_transparent |-> FALSE]]

\* The shape constants of the arrays handed to Transfer::new.
ShapeOf(sources, senders, receivers, sinks) ==
    [SOURCES |-> Len(sources), SENDERS |-> Len(senders),
     RECEIVERS |-> Len(receivers), SINKS |-> Len(sinks)]

\* Transfer::has_nonempty_input_shape: the panic message, None without panic.
has_nonempty_input_shape(S) ==
    IF S.SOURCES + S.SENDERS = 0
    THEN Some("Not enough participants on the input side.") ELSE None

\* Transfer::has_nonempty_output_shape
has_nonempty_output_shape(S) ==
    IF S.RECEIVERS + S.SINKS = 0
    THEN Some("Not enough participants on the output side.") ELSE None

\* has_authorization_when_required that only asks for a missing authorization.
has_authorization_when_required_one_sided(S, has_authorization) ==
    IF requires_authorization(S.SENDERS) /\ ~has_authorization
    THEN Some("Missing authorization when required.") ELSE None

\* Transfer::has_authorization_when_required
has_authorization_when_required(S, has_authorization) ==
    IF requires_authorization(S.SENDERS)
    THEN (IF has_authorization THEN None ELSE Some("Missing authorization when required."))
    ELSE (IF ~has_authorization THEN None ELSE Some("Given authorization when not required."))

\* Transfer::has_visible_asset_id_when_required
has_visible_asset_id_when_required(S, has_visible_asset_id) ==
    IF has_public_participants(S.SOURCES, S.SINKS)
    THEN (IF has_visible_asset_id THEN None
          ELSE Some("Missing public asset id when required."))
    ELSE (IF ~has_visible_asset_id THEN None
          ELSE Some("Given public asset id when not required."))

\* The first panic of a sequence of assertion outcomes, None when none panics.
FirstPanic(outcomes) ==
    IF \A i \in DOMAIN outcomes : outcomes[i] = None THEN None
    ELSE outcomes[CHOOSE i \in DOMAIN outcomes :
                    /\ outcomes[i] # None
                    /\ \A j \in 1..(i - 1) : outcomes[j] = None]

\* check_shape that asserts a non-empty transfer instead of two non-empty sides.
check_shape_either_side(S, has_authorization, has_visible_asset_id) ==
    FirstPanic(<<IF S.SOURCES + S.SENDERS + S.RECEIVERS + S.SINKS = 0
                 THEN Some("Not enough participants on the input side.") ELSE None,
                 has_authorization_when_required(S, has_authorization),
                 has_visible_asset_id_when_required(S, has_visible_asset_id)>>)

\* Transfer::check_shape
check_shape(S, has_authorization, has_visible_asset_id) ==
    FirstPanic(<<has_nonempty_input_shape(S),
                 has_nonempty_output_shape(S),
                 has_authorization_when_required(S, has_authorization),
                 has_visible_asset_id_when_required(S, has_visible_asset_id)>>)

\* Transfer::new_unchecked
new_unchecked(authorization, asset_id, sources, senders, receivers, sinks) ==
    [authorization |-> authorization, asset_id |-> asset_id, sources |-> sources,
     senders |-> senders, receivers |-> receivers, sinks |-> sinks]

\* Transfer::new: the panic raised, or the Transfer returned.
Transfer_new(authorization, asset_id, sources, senders, receivers, sinks) ==
    LET panic == check_shape(ShapeOf(sources, senders, receivers, sinks),
                             is_some(authorization), is_some(asset_id))
    IN IF is_some(panic) THEN [panic |-> panic, transfer |-> None]
       ELSE [panic |-> None,
             transfer |-> Some(new_unchecked(authorization, asset_id, sources,
                                             senders, receivers, sinks))]

\* An Asset: an asset id and a value.
Asset(id, value) == [id |-> id, value |-> value]

\* slice::get: the element at the zero-based index k, None out of range.
get(seq, k) == IF k < Len(seq) THEN Some(seq[k + 1]) ELSE None

\* construct_asset that takes the asset id for present.
construct_asset_unwrapped(self, value) ==
    Some(Asset(IF is_some(self.asset_id) THEN unwrap(self.asset_id) ELSE "default", value))

\* Transfer::construct_asset and TransferPostBody::construct_asset: `?` on the
\* asset id returns None when there is none.
construct_asset(self, value) ==
    IF is_some(self.asset_id) THEN Some(Asset(unwrap(self.asset_id), value)) ELSE None

\* Transfer::source and TransferPostBody::source
source(self, k) ==
    LET value == get(self.sources, k)
    IN IF is_some(value) THEN construct_asset(self, unwrap(value)) ELSE None

\* Transfer::sink and TransferPostBody::sink
sink(self, k) ==
    LET value == get(self.sinks, k)
    IN IF is_some(value) THEN construct_asset(self, unwrap(value)) ELSE None

\* TransferPost::source and TransferPost::sink
TransferPost_source(self, k) == source(self.body, k)
TransferPost_sink(self, k) == sink(self.body, k)

(***************************************************************************)
(* TransferVar: the constraint system of the validity proof.  A variable   *)
(* is its allocation mode and, in a known-witness compiler, its value; an  *)
(* assertion is recorded with the values it constrains.                    *)
(***************************************************************************)
Public(value) == [mode |-> "Public", value |-> value]
Secret(value) == [mode |-> "Secret", value |-> value]

\* TransferVar::new_known
new_known(this) ==
    [authorization |-> IF is_some(this.authorization)
                       THEN Some(Secret(unwrap(this.authorization))) ELSE None,
     asset_id |-> IF is_some(this.asset_id)
                  THEN Some(Public(unwrap(this.asset_id))) ELSE None,
     sources |-> [i \in DOMAIN this.sources |-> Public(this.sources[i])],
     senders |-> [i \in DOMAIN this.senders |-> Secret(this.senders[i])],
     receivers |-> [i \in DOMAIN this.receivers |-> Secret(this.receivers[i])],
     sinks |-> [i \in DOMAIN this.sinks |-> Public(this.sinks[i])]]

\* compiler.allocate_unknown(): a variable without a value.  The model writes
\* Unassigned where a known variable holds its value; nothing reads it.
Unassigned == 0
UnassignedSender == Sender("unassigned", Unassigned, Unassigned)
UnassignedReceiver == Receiver("unassigned", Unassigned, Unassigned)

\* new_unknown that allocates the public asset id for shapes with sources only.
new_unknown_asset_id_for_sources(S) ==
    [authorization |-> IF requires_authorization(S.SENDERS)
                       THEN Some(Secret(Authorization("unassigned"))) ELSE None,
     asset_id |-> IF has_public_participants(S.SOURCES, 0)
                  THEN Some(Public("unassigned")) ELSE None,
     sources |-> [i \in 1..S.SOURCES |-> Public(Unassigned)],
     senders |-> [i \in 1..S.SENDERS |-> Secret(UnassignedSender)],
     receivers |-> [i \in 1..S.RECEIVERS |-> Secret(UnassignedReceiver)],
     sinks |-> [i \in 1..S.SINKS |-> Public(Unassigned)]]

\* TransferVar::new_unknown for the shape S
new_unknown(S) ==
    [authorization |-> IF requires_authorization(S.SENDERS)
                       THEN Some(Secret(Authorization("unassigned"))) ELSE None,
     asset_id |-> IF has_public_participants(S.SOURCES, S.SINKS)
                  THEN Some(Public("unassigned")) ELSE None,
     sources |-> [i \in 1..S.SOURCES |-> Public(Unassigned)],
     senders |-> [i \in 1..S.SENDERS |-> Secret(UnassignedSender)],
     receivers |-> [i \in 1..S.RECEIVERS |-> Secret(UnassignedReceiver)],
     sinks |-> [i \in 1..S.SINKS |-> Public(Unassigned)]]

\* An assertion added to the compiler.
Assertion(kind, terms) == [kind |-> kind, terms |-> terms]

\* What a part of the circuit yields: the assertions it added, the secret
\* asset ids it collected, its value sum and the values handed to value_sum.
Summed(assertions, secret_asset_ids, terms, sum) ==
    [assertions |-> assertions, secret_asset_ids |-> secret_asset_ids,
     terms |-> terms, sum |-> sum]

RECURSIVE value_sum(_)
\* TransferVar::value_sum: reduce by Add and unwrap; the reduction of an empty
\* iterator is None, on which unwrap panics.
value_sum(iter) ==
    IF iter = <<>> THEN None
    ELSE IF Len(iter) = 1 THEN Some(iter[1])
    ELSE Some(unwrap(value_sum(SubSeq(iter, 1, Len(iter) - 1))) + iter[Len(iter)])

\* SenderVar::well_formed_asset and ReceiverVar::well_formed_asset: the
\* assertion that the participant is well-formed, yielding its secret asset.
well_formed_asset(kind, participant) == Assertion(kind, <<participant.value>>)

\* input_sum that leaves the public sources out of the sum.
input_sum_without_sources(authorization, senders, sources) ==
    IF is_some(authorization)
    THEN LET terms == [i \in DOMAIN senders |-> senders[i].value.asset.value]
         IN Summed(<<Assertion("assert_authorized", <<unwrap(authorization).value>>)>>
                    \o [i \in DOMAIN senders |-> well_formed_asset("well_formed_sender", senders[i])],
                   [i \in DOMAIN senders |-> senders[i].value.asset.id],
                   terms, value_sum(terms))
    ELSE LET terms == [i \in DOMAIN sources |-> sources[i].value]
         IN Summed(<<>>, <<>>, terms, value_sum(terms))

\* TransferVar::input_sum
input_sum(authorization, senders, sources) ==
    IF is_some(authorization)
    THEN LET terms == [i \in DOMAIN senders |-> senders[i].value.asset.value]
                          \o [i \in DOMAIN sources |-> sources[i].value]
         IN Summed(<<Assertion("assert_authorized", <<unwrap(authorization).value>>)>>
                    \o [i \in DOMAIN senders |-> well_formed_asset("well_formed_sender", senders[i])],
                   [i \in DOMAIN senders |-> senders[i].value.asset.id],
                   terms, value_sum(terms))
    ELSE LET terms == [i \in DOMAIN sources |-> sources[i].value]
         IN Summed(<<>>, <<>>, terms, value_sum(terms))

\* output_sum that collects no secret asset id.
output_sum_collecting_nothing(receivers, sinks) ==
    LET terms == [i \in DOMAIN receivers |-> receivers[i].value.asset.value]
                     \o [i \in DOMAIN sinks |-> sinks[i].value]
    IN Summed([i \in DOMAIN receivers |-> well_formed_asset("well_formed_receiver", receivers[i])],
              <<>>, terms, value_sum(terms))

\* TransferVar::output_sum
output_sum(receivers, sinks) ==
    LET terms == [i \in DOMAIN receivers |-> receivers[i].value.asset.value]
                     \o [i \in DOMAIN sinks |-> sinks[i].value]
    IN Summed([i \in DOMAIN receivers |-> well_formed_asset("well_formed_receiver", receivers[i])],
              [i \in DOMAIN receivers |-> receivers[i].value.asset.id],
              terms, value_sum(terms))

\* TransferVar::build_validity_constraints: the assertions in the order added.
build_validity_constraints(self) ==
    LET in == input_sum(self.authorization, self.senders, self.sources)
        out == output_sum(self.receivers, self.sinks)
        secret_asset_ids == in.secret_asset_ids \o out.secret_asset_ids
    IN in.assertions \o out.assertions
       \o <<Assertion("assert_eq", <<in.sum, out.sum>>)>>
       \o <<IF is_some(self.asset_id)
            THEN Assertion("assert_all_eq_to_base",
                           <<unwrap(self.asset_id).value>> \o secret_asset_ids)
            ELSE Assertion("assert_all_eq", secret_asset_ids)>>

\* Transfer::known_constraints
known_constraints(self) == build_validity_constraints(new_known(self))

\* Transfer::unknown_constraints for the shape S
unknown_constraints(S) == build_validity_constraints(new_unknown(S))

\* ProofSystem::compile: the proving and verifying contexts of a circuit, or
\* the proof system's error.
compile(compiler, outcome) ==
    IF outcome = "error" THEN [result |-> Err("ProofSystemError", <<>>), contexts |-> None]
    ELSE [result |-> Ok,
          contexts |-> Some([proving_context |-> compiler, verifying_context |-> compiler])]

\* Transfer::generate_context for the shape S
generate_context(S, outcome) == compile(unknown_constraints(S), outcome)

\* Whether the known values satisfy an assertion.  The participants handed
\* to the builder are well-formed and authorized.
Holds(assertion) ==
    IF assertion.kind = "assert_eq" THEN assertion.terms[1] = assertion.terms[2]
    ELSE IF assertion.kind \in {"assert_all_eq_to_base", "assert_all_eq"}
    THEN \A i, j \in DOMAIN assertion.terms : assertion.terms[i] = assertion.terms[j]
    ELSE TRUE

\* Whether the constraint system is satisfied by its known values.
is_satisfied(compiler) == \A i \in DOMAIN compiler : Holds(compiler[i])

(***************************************************************************)
(* The public input of the validity proof.  ProofSystem::extend appends    *)
(* the encoding of one public value; an element is the kind of the value   *)
(* and the value.                                                          *)
(***************************************************************************)
Element(kind, value) == [kind |-> kind, value |-> value]

\* Sender::into_post and Receiver::into_post: the public part of a participant.
Sender_into_post(sender) ==
    [utxo_accumulator_output |-> sender.utxo_accumulator_output,
     nullifier |-> sender.nullifier]

Receiver_into_post(receiver) == [utxo |-> receiver.utxo]

\* The elements of a sequence of values of one kind.
Elements(kind, values) == [i \in DOMAIN values |-> Element(kind, values[i])]

\* The element of an optional value of one kind.
OptionalElement(kind, option) ==
    IF is_some(option) THEN <<Element(kind, unwrap(option))>> ELSE <<>>

\* Transfer::extend with the sinks folded before the receivers.
Transfer_extend_sinks_first(self, input) ==
    input
    \o (IF is_some(self.authorization)
        THEN <<Element("authorization_key", unwrap(self.authorization).authorization_key)>>
        ELSE <<>>)
    \o OptionalElement("asset_id", self.asset_id)
    \o Elements("source", self.sources)
    \o Elements("sender", [i \in DOMAIN self.senders |-> Sender_into_post(self.senders[i])])
    \o Elements("sink", self.sinks)
    \o Elements("receiver",
                [i \in DOMAIN self.receivers |-> Receiver_into_post(self.receivers[i])])

\* Input::extend for Transfer
Transfer_extend(self, input) ==
    input
    \o (IF is_some(self.authorization)
        THEN <<Element("authorization_key", unwrap(self.authorization).authorization_key)>>
        ELSE <<>>)
    \o OptionalElement("asset_id", self.asset_id)
    \o Elements("source", self.sources)
    \o Elements("sender", [i \in DOMAIN self.senders |-> Sender_into_post(self.senders[i])])
    \o Elements("receiver",
                [i \in DOMAIN self.receivers |-> Receiver_into_post(self.receivers[i])])
    \o Elements("sink", self.sinks)

\* Transfer::generate_proof_input
Transfer_generate_proof_input(self) == Transfer_extend(self, <<>>)

\* Input::extend for TransferPostBody
TransferPostBody_extend(self, input) ==
    input
    \o OptionalElement("asset_id", self.asset_id)
    \o Elements("source", self.sources)
    \o Elements("sender", self.sender_posts)
    \o Elements("receiver", self.receiver_posts)
    \o Elements("sink", self.sinks)

\* Input::extend for TransferPost
TransferPost_extend(self, input) ==
    TransferPostBody_extend(self.body,
        input \o (IF is_some(self.authorization_signature)
                  THEN <<Element("authorization_key",
                                 unwrap(self.authorization_signature).authorization_key)>>
                  ELSE <<>>))

\* TransferPost::generate_proof_input
TransferPost_generate_proof_input(self) == TransferPost_extend(self, <<>>)

\* TransferPostingKeyRef::extend with the authorization key left out.
TransferPostingKeyRef_extend_without_key(self, input) ==
    input
    \o OptionalElement("asset_id", self.asset_id)
    \o Elements("source", [i \in DOMAIN self.sources |-> self.sources[i].value])
    \o Elements("sender", self.senders)
    \o Elements("receiver", self.receivers)
    \o Elements("sink", [i \in DOMAIN self.sinks |-> self.sinks[i].value])

\* Input::extend for TransferPostingKeyRef: a source or sink posting key
\* gives its amount by as_ref.
TransferPostingKeyRef_extend(self, input) ==
    input
    \o OptionalElement("authorization_key", self.authorization_key)
    \o OptionalElement("asset_id", self.asset_id)
    \o Elements("source", [i \in DOMAIN self.sources |-> self.sources[i].value])
    \o Elements("sender", self.senders)
    \o Elements("receiver", self.receivers)
    \o Elements("sink", [i \in DOMAIN self.sinks |-> self.sinks[i].value])

\* TransferPostingKeyRef::generate_proof_input
TransferPostingKeyRef_generate_proof_input(self) == TransferPostingKeyRef_extend(self, <<>>)

(***************************************************************************)
(* Transfer::into_post: prove, then sign.                                  *)
(***************************************************************************)
\* ProofSystem::prove: the prover fails with its own error, or yields a
\* proof that verifies exactly when the known values satisfy the constraints.
prove(compiler, prover) ==
    IF prover = "error" THEN [result |-> Err("ProofSystemError", <<>>), proof |-> None]
    ELSE [result |-> Ok,
          proof |-> Some(IF is_satisfied(compiler) THEN "valid_proof" ELSE "invalid_proof")]

\* auth::sign: None when the authorization does not belong to the spending key.
sign(spending_key, authorization, message) ==
    IF authorization.spending_key # spending_key THEN None
    ELSE Some([authorization_key |-> authorization.authorization_key,
               message |-> message])

\* TransferPostBody::build
TransferPostBody_build(proof, asset_id, sources, senders, receivers, sinks) ==
    [asset_id |-> asset_id,
     sources |-> sources,
     sender_posts |-> [i \in DOMAIN senders |-> Sender_into_post(senders[i])],
     receiver_posts |-> [i \in DOMAIN receivers |-> Receiver_into_post(receivers[i])],
     sinks |-> sinks,
     proof |-> proof]

\* Transfer::into_post_body_with_authorization
into_post_body_with_authorization(self, prover) ==
    LET p == prove(known_constraints(self), prover) IN
    IF ~is_ok(p.result)
    THEN [result |-> p.result, body |-> None, authorization |-> None]
    ELSE [result |-> Ok,
          body |-> Some(TransferPostBody_build(unwrap(p.proof), self.asset_id,
                            self.sources, self.senders, self.receivers, self.sinks)),
          authorization |-> self.authorization]

\* TransferPost::new_unchecked_with_sinks
new_unchecked_with_sinks(authorization_signature, body, sink_accounts) ==
    [authorization_signature |-> authorization_signature, body |-> body,
     sink_accounts |-> sink_accounts]

\* What into_post answers: Ok with the optional post, or the prover's error,
\* and whether the prover was called.
Converted(result, post, proved) == [result |-> result, post |-> post, proved |-> proved]

\* into_post that builds an unsigned post when no spending key is supplied.
into_post_unsigned_without_key(self, spending_key, sink_accounts, prover) ==
    LET b == into_post_body_with_authorization(self, prover) IN
    IF is_some(spending_key) /\ ~requires_authorization(Len(self.senders))
    THEN Converted(Ok, None, FALSE)
    ELSE IF ~is_ok(b.result) THEN Converted(b.result, None, TRUE)
    ELSE Converted(Ok, Some(new_unchecked_with_sinks(None, unwrap(b.body), <<>>)), TRUE)

\* into_post that checks the authorization against the spending key before
\* it calls the prover.
into_post_signing_first(self, spending_key, sink_accounts, prover) ==
    LET required == requires_authorization(Len(self.senders))
        b == into_post_body_with_authorization(self, prover)
    IN
    IF required /\ is_some(self.authorization) /\ is_some(spending_key)
    THEN IF unwrap(self.authorization).spending_key # unwrap(spending_key)
         THEN Converted(Ok, None, FALSE)
         ELSE IF ~is_ok(b.result) THEN Converted(b.result, None, TRUE)
         ELSE LET body_with_accounts == BodyWithAccountsRef(unwrap(b.body), sink_accounts)
                  signature == sign(unwrap(spending_key), unwrap(b.authorization),
                                    body_with_accounts)
              IN IF has_sinks(Len(self.sinks))
                 THEN Converted(Ok, Some(new_unchecked_with_sinks(
                                    signature, unwrap(b.body), sink_accounts)), TRUE)
                 ELSE Converted(Ok, Some(new_unchecked_with_sinks(
                                    signature, unwrap(b.body), <<>>)), TRUE)
    ELSE IF ~required /\ ~is_some(self.authorization) /\ ~is_some(spending_key)
    THEN IF ~is_ok(b.result) THEN Converted(b.result, None, TRUE)
         ELSE Converted(Ok, Some(new_unchecked_with_sinks(None, unwrap(b.body), <<>>)), TRUE)
    ELSE Converted(Ok, None, FALSE)

\* Transfer::into_post
into_post(self, spending_key, sink_accounts, prover) ==
    LET required == requires_authorization(Len(self.senders))
        b == into_post_body_with_authorization(self, prover)
    IN
    IF required /\ is_some(self.authorization) /\ is_some(spending_key)
    THEN IF ~is_ok(b.result) THEN Converted(b.result, None, TRUE)
         ELSE LET body_with_accounts == BodyWithAccountsRef(unwrap(b.body), sink_accounts)
                  signature == sign(unwrap(spending_key), unwrap(b.authorization),
                                    body_with_accounts)
              IN IF is_some(signature)
                 THEN IF has_sinks(Len(self.sinks))
                      THEN Converted(Ok, Some(new_unchecked_with_sinks(
                                         signature, unwrap(b.body), sink_accounts)), TRUE)
                      ELSE Converted(Ok, Some(new_unchecked_with_sinks(
                                         signature, unwrap(b.body), <<>>)), TRUE)
                 ELSE Converted(Ok, None, TRUE)
    ELSE IF ~required /\ ~is_some(self.authorization) /\ ~is_some(spending_key)
    THEN IF ~is_ok(b.result) THEN Converted(b.result, None, TRUE)
         ELSE Converted(Ok, Some(new_unchecked_with_sinks(None, unwrap(b.body), <<>>)), TRUE)
    ELSE Converted(Ok, None, FALSE)

(***************************************************************************)
(* The posts and account lists a caller can hand to validate.              *)
(***************************************************************************)
TransferPostBody(asset_id, sources, sender_posts, receiver_posts, sinks, proof) ==
    [asset_id |-> asset_id, sources |-> sources, sender_posts |-> sender_posts,
     receiver_posts |-> receiver_posts, sinks |-> sinks, proof |-> proof]

TransferPost(authorization_signature, body, sink_accounts) ==
    [authorization_signature |-> authorization_signature, body |-> body,
     sink_accounts |-> sink_accounts]

\* A body other than `body`: what a signature made for another post covers.
OtherBody(body) == [body EXCEPT !.proof = "proof_of_another_post"]

AccountLists == SeqsUpTo(Accounts, MaxPublic)
ValueLists == SeqsUpTo(AssetValues, MaxPublic)
OptionalAssetIds == {None} \cup {Some(a) : a \in AssetIds}

\* The signature side of a submission: whether the post is signed, whether the
\* signature was made for this body, the sink accounts it was made for and the
\* sink accounts the post carries.
SigSide(signed, same_body, signed_sinks, post_sinks) ==
    [signed |-> signed, same_body |-> same_body, signed_sinks |-> signed_sinks,
     post_sinks |-> post_sinks]

SigFine ==
    {SigSide(FALSE, TRUE, <<>>, p) : p \in AccountLists}
    \cup {SigSide(TRUE, b, l, p) : b \in BOOLEAN, l \in AccountLists, p \in AccountLists}

SigCoarse ==
    {SigSide(FALSE, TRUE, <<>>, <<>>),
     SigSide(TRUE, TRUE, <<>>, <<>>),
     SigSide(TRUE, TRUE, <<"alice">>, <<"alice">>),
     SigSide(TRUE, FALSE, <<>>, <<>>)}

\* The public side: asset id, source amounts and accounts, sink amounts and accounts.
PubSide(asset_id, sources, source_accounts, sinks, sink_accounts) ==
    [asset_id |-> asset_id, sources |-> sources, source_accounts |-> source_accounts,
     sinks |-> sinks, sink_accounts |-> sink_accounts]

HalfFine == ValueLists \X AccountLists
HalfCoarse == {<< <<>>, <<>> >>, << <<1>>, <<"alice">> >>, << <<1>>, <<"bob">> >>}

PubFine ==
    {PubSide(a, src[1], src[2], snk[1], snk[2]) :
        a \in OptionalAssetIds,
        src \in HalfFine, snk \in HalfCoarse}
    \cup {PubSide(a, src[1], src[2], snk[1], snk[2]) :
        a \in OptionalAssetIds,
        src \in HalfCoarse, snk \in HalfFine}

PubCoarse ==
    {PubSide(None, <<>>, <<>>, <<>>, <<>>),
     PubSide(Some("X"), <<1>>, <<"alice">>, <<>>, <<>>),
     PubSide(Some("X"), <<>>, <<>>, <<1>>, <<"alice">>),
     PubSide(None, <<1>>, <<"alice">>, <<>>, <<>>),
     PubSide(Some("X"), <<1>>, <<"bob">>, <<>>, <<>>),
     PubSide(Some("X"), <<>>, <<>>, <<1>>, <<"bob">>)}

\* The private side: sender posts and receiver posts.
PrivSide(sender_posts, receiver_posts) ==
    [sender_posts |-> sender_posts, receiver_posts |-> receiver_posts]

SendersCoarse ==
    {<<>>, <<SenderPostOf(N1)>>, <<SenderPostOf(N1), SenderPostOf(N2)>>,
     <<SenderPostOf(N1), SenderPostOf(N1r)>>, <<SenderPostOf(N3)>>}

ReceiversCoarse ==
    {<<>>, <<ReceiverPostOf(U1)>>, <<ReceiverPostOf(U1), ReceiverPostOf(U2)>>,
     <<ReceiverPostOf(U1), ReceiverPostOf(U1r)>>, <<ReceiverPostOf(U3)>>}

PrivFine ==
    {PrivSide(s, r) : s \in SeqsUpTo(SenderPosts, MaxSenderPosts), r \in ReceiversCoarse}
    \cup {PrivSide(s, r) : s \in SendersCoarse, r \in SeqsUpTo(ReceiverPosts, MaxReceiverPosts)}

PrivCoarse ==
    {PrivSide(<<>>, <<ReceiverPostOf(U1)>>),
     PrivSide(<<SenderPostOf(N1)>>, <<ReceiverPostOf(U1)>>),
     PrivSide(<<SenderPostOf(N1), SenderPostOf(N2)>>, <<ReceiverPostOf(U1), ReceiverPostOf(U2)>>),
     PrivSide(<<SenderPostOf(N2)>>, <<>>),
     PrivSide(<<SenderPostOf(N1), SenderPostOf(N1r)>>, <<ReceiverPostOf(U1)>>),
     PrivSide(<<SenderPostOf(N1)>>, <<ReceiverPostOf(U1), ReceiverPostOf(U1r)>>),
     PrivSide(<<SenderPostOf(N3)>>, <<ReceiverPostOf(U3)>>),
     PrivSide(<<>>, <<>>)}

\* The arguments of one validate call: the post and the two account lists.
ValidateInput(sig, pub, priv, proof) ==
    LET body == TransferPostBody(pub.asset_id, pub.sources, priv.sender_posts,
                                 priv.receiver_posts, pub.sinks, proof)
        authorization_signature ==
            IF sig.signed
            THEN Some([authorization_key |-> "authorization_key",
                       message |-> BodyWithAccountsRef(
                           IF sig.same_body THEN body ELSE OtherBody(body),
                           sig.signed_sinks)])
            ELSE None
    IN [post |-> TransferPost(authorization_signature, body, sig.post_sinks),
        source_accounts |-> pub.source_accounts,
        sink_accounts |-> pub.sink_accounts]

\* Every side ranges over all its values while the other sides range over
\* representatives of their cases.
InputSlices ==
    {[sig |-> SigFine, pub |-> PubCoarse, priv |-> PrivCoarse],
     [sig |-> SigCoarse, pub |-> PubFine, priv |-> PrivCoarse],
     [sig |-> SigCoarse, pub |-> PubCoarse, priv |-> PrivFine]}

\* The submissions the life cycle is explored with.
LifecycleInputs ==
    {ValidateInput(sig, pub, priv, proof) :
        sig \in SigCoarse, pub \in PubCoarse, priv \in PrivCoarse, proof \in Proofs}

(***************************************************************************)
(* The arguments a caller can hand to Transfer::new.                       *)
(***************************************************************************)
OptionalAuthorizations == {None} \cup {Some(a) : a \in Authorizations}
OptionalAllAssetIds == {None} \cup {Some(a) : a \in AllAssetIds}

\* Arrays of every length up to MaxShape whose elements differ by position only.
PlainValues == {[i \in 1..n |-> 1] : n \in 0..MaxShape}
PlainSenders == {[i \in 1..n |-> Sender("X", 1, i)] : n \in 0..MaxShape}
PlainReceivers == {[i \in 1..n |-> Receiver("X", 1, i)] : n \in 0..MaxShape}

\* The arguments of Transfer::new.
Arguments(authorization, asset_id, sources, senders, receivers, sinks) ==
    [authorization |-> authorization, asset_id |-> asset_id, sources |-> sources,
     senders |-> senders, receivers |-> receivers, sinks |-> sinks]

\* Arrays of every length up to MaxShape with every content.
FineValues == SeqsUpTo(AssetValues, MaxShape)

FineSenders ==
    UNION {{[i \in 1..n |-> Sender(c[i][1], c[i][2], i)] :
                c \in [1..n -> AllAssetIds \X AssetValues]} : n \in 0..MaxShape}

FineReceivers ==
    UNION {{[i \in 1..n |-> Receiver(c[i][1], c[i][2], i)] :
                c \in [1..n -> AllAssetIds \X AssetValues]} : n \in 0..MaxShape}

CoarseValues == {<<>>, <<1>>, <<2>>}
CoarseSenders == {<<>>, <<Sender("X", 1, 1)>>, <<Sender("Y", 2, 1)>>}
CoarseReceivers == {<<>>, <<Receiver("X", 1, 1)>>, <<Receiver("Y", 2, 1)>>}

\* Arguments with the authorization and the public asset id the shape requires.
ShapedArguments(id, sources, senders, receivers, sinks) ==
    Arguments(IF Len(senders) > 0 THEN Some(Authorization("sk1")) ELSE None,
              IF Len(sources) + Len(sinks) > 0 THEN Some(id) ELSE None,
              sources, senders, receivers, sinks)

\* Every content of the public side, of the senders and of the receivers,
\* the other sides ranging over representatives.
ValueSlices ==
    {[sources |-> FineValues, senders |-> CoarseSenders,
      receivers |-> CoarseReceivers, sinks |-> FineValues],
     [sources |-> CoarseValues, senders |-> FineSenders,
      receivers |-> CoarseReceivers, sinks |-> CoarseValues],
     [sources |-> CoarseValues, senders |-> CoarseSenders,
      receivers |-> FineReceivers, sinks |-> CoarseValues]}

\* The sink accounts a caller hands to into_post for a transfer with n sinks.
SinkAccountChoices(n) ==
    {<<>>, <<"alice">>, [i \in 1..n |-> "alice"],
     [i \in 1..n |-> IF i = 1 THEN "bob" ELSE "alice"]}

\* A ledger on which nothing is spent or registered and every account can pay.
OpenLedger ==
    [nullifiers |-> {}, utxos |-> {}, outputs |-> {"root"},
     balances |-> [a \in Accounts |-> 2]]

\* No validate call.
NoInput == ValidateInput(SigSide(FALSE, TRUE, <<>>, <<>>),
                         PubSide(None, <<>>, <<>>, <<>>, <<>>),
                         PrivSide(<<>>, <<>>), "invalid_proof")

\* No identity verification and no matrix operation.
NoIdentity == [pc |-> "unused"]
NoMatrix == [pc |-> "unused"]

NoCall == [op |-> "none"]

\* The state of the builder: the arguments of Transfer::new, the panic it
\* raised or the Transfer it returned, and the call made on the Transfer.
TransferState(pc, args, panic, transfer, call) ==
    [pc |-> pc, args |-> args, panic |-> panic, transfer |-> transfer, call |-> call]

NoTransfer ==
    TransferState("unused", Arguments(None, None, <<>>, <<>>, <<>>, <<>>),
                  None, None, NoCall)

(***************************************************************************)
(* SpecValidate: one call of TransferPost::validate on a ledger that has   *)
(* spent N3 and registered U3 and holds one unit for alice.                *)
(***************************************************************************)
UsedLedger ==
    [nullifiers |-> {N3}, utxos |-> {U3}, outputs |-> {"root"},
     balances |-> [a \in {"alice"} |-> 1]]

NotCalled == Validated(Err("NotCalled", <<>>), None, <<>>, UsedLedger)

\* A submission: its life-cycle state, the posting key it holds, the result
\* of the last call on it, the steps of that call and the event returned.
Slot(state, key, result, trace, event) ==
    [state |-> state, key |-> key, result |-> result, trace |-> trace, event |-> event]

Unvalidated == Slot("unvalidated", None, Err("NotCalled", <<>>), <<>>, None)

NoSlots == [k \in 1..MaxKeys |-> Unvalidated]

InitValidate ==
    /\ \E slice \in InputSlices :
         \E sig \in slice.sig, pub \in slice.pub, priv \in slice.priv, proof \in Proofs :
            vin = ValidateInput(sig, pub, priv, proof)
    /\ vout = NotCalled
    /\ vpc = "ready"
    /\ ledger = UsedLedger
    /\ slots = NoSlots
    /\ idv = NoIdentity
    /\ mx = NoMatrix
    /\ tx = NoTransfer

ValidateCall ==
    /\ vpc = "ready"
    /\ vout' = validate(vin.post, ledger, vin.source_accounts, vin.sink_accounts)
    /\ ledger' = vout'.ledger
    /\ vpc' = "done"
    /\ UNCHANGED <<vin, idv, mx, slots, tx>>

NextValidate == ValidateCall

SpecValidate == InitValidate /\ [][NextValidate]_vars

(***************************************************************************)
(* SpecPost: one call of TransferPost::post on the same ledger.            *)
(***************************************************************************)
InitPost ==
    /\ \E slice \in InputSlices :
         \E sig \in slice.sig, pub \in slice.pub, priv \in slice.priv, proof \in Proofs :
            vin = ValidateInput(sig, pub, priv, proof)
    /\ vout = PostOutcome(Err("NotCalled", <<>>), None, UsedLedger, <<>>)
    /\ vpc = "ready"
    /\ ledger = UsedLedger
    /\ slots = NoSlots
    /\ idv = NoIdentity
    /\ mx = NoMatrix
    /\ tx = NoTransfer

PostCall ==
    /\ vpc = "ready"
    /\ vout' = TransferPost_post(vin.post, ledger, vin.source_accounts, vin.sink_accounts)
    /\ ledger' = vout'.ledger
    /\ vpc' = "done"
    /\ UNCHANGED <<vin, idv, mx, slots, tx>>

NextPost == PostCall

SpecPost == InitPost /\ [][NextPost]_vars

(***************************************************************************)
(* SpecTransfer: a Transfer is built from its parts and one call is made   *)
(* on it.                                                                  *)
(***************************************************************************)
\* The arguments are every shape with and without authorization and public
\* asset id, or every content of one side of a well-shaped transfer.
InitTransfer ==
    /\ \/ \E authorization \in OptionalAuthorizations, asset_id \in OptionalAllAssetIds,
             sources \in PlainValues, senders \in PlainSenders,
             receivers \in PlainReceivers, sinks \in PlainValues :
            tx = TransferState("args",
                     Arguments(authorization, asset_id, sources, senders, receivers, sinks),
                     None, None, NoCall)
       \/ \E slice \in ValueSlices :
            \E id \in AllAssetIds, sources \in slice.sources, senders \in slice.senders,
               receivers \in slice.receivers, sinks \in slice.sinks :
            tx = TransferState("args",
                     ShapedArguments(id, sources, senders, receivers, sinks),
                     None, None, NoCall)
    /\ ledger = UsedLedger
    /\ slots = NoSlots
    /\ idv = NoIdentity
    /\ mx = NoMatrix
    /\ vin = ValidateInput(SigSide(FALSE, TRUE, <<>>, <<>>),
                           PubSide(None, <<>>, <<>>, <<>>, <<>>),
                           PrivSide(<<>>, <<>>), "invalid_proof")
    /\ vout = NotCalled
    /\ vpc = "unused"

\* Transfer::new: panics or returns the Transfer.
New ==
    /\ tx.pc = "args"
    /\ LET r == Transfer_new(tx.args.authorization, tx.args.asset_id, tx.args.sources,
                             tx.args.senders, tx.args.receivers, tx.args.sinks)
       IN tx' = [tx EXCEPT !.pc = IF is_some(r.panic) THEN "panicked" ELSE "built",
                           !.panic = r.panic,
                           !.transfer = r.transfer]
    /\ UNCHANGED <<ledger, slots, vin, idv, mx, vout, vpc>>

\* Transfer::generate_proof_input on the Transfer built.
GenerateProofInput ==
    /\ tx.pc = "built"
    /\ tx' = [tx EXCEPT !.pc = "done",
                        !.call = [op |-> "generate_proof_input",
                                  input |-> Transfer_generate_proof_input(
                                                unwrap(tx.transfer))]]
    /\ UNCHANGED <<ledger, slots, vin, idv, mx, vout, vpc>>

\* Transfer::known_constraints on the Transfer built.
KnownConstraints ==
    /\ tx.pc = "built"
    /\ tx' = [tx EXCEPT !.pc = "done",
                        !.call = [op |-> "known_constraints",
                                  compiler |-> known_constraints(unwrap(tx.transfer))]]
    /\ UNCHANGED <<ledger, slots, vin, idv, mx, vout, vpc>>

\* Transfer::into_post on the Transfer built.
IntoPost ==
    /\ tx.pc = "built"
    /\ \E spending_key \in {None} \cup {Some(k) : k \in SpendingKeys},
          sink_accounts \in SinkAccountChoices(Len(unwrap(tx.transfer).sinks)),
          prover \in {"ok", "error"} :
        LET r == into_post(unwrap(tx.transfer), spending_key, sink_accounts, prover) IN
        tx' = [tx EXCEPT !.pc = IF is_some(r.post) THEN "posted" ELSE "done",
                         !.call = [op |-> "into_post", spending_key |-> spending_key,
                                   sink_accounts |-> sink_accounts, prover |-> prover,
                                   result |-> r.result, post |-> r.post,
                                   proved |-> r.proved]]
    /\ UNCHANGED <<ledger, slots, vin, idv, mx, vout, vpc>>

\* TransferPost::generate_proof_input on the post into_post returned.
PostGenerateProofInput ==
    /\ tx.pc = "posted"
    /\ tx' = [tx EXCEPT !.pc = "post_input",
                        !.call = [op |-> "TransferPost::generate_proof_input",
                                  post |-> tx.call.post,
                                  post_input |-> TransferPost_generate_proof_input(
                                                     unwrap(tx.call.post))]]
    /\ UNCHANGED <<ledger, slots, vin, idv, mx, vout, vpc>>

\* TransferPost::validate on that post, and generate_proof_input on the key
\* reference it hands to is_valid.
ValidateConverted ==
    /\ tx.pc = "post_input"
    /\ LET post == unwrap(tx.call.post)
           v == validate(post, OpenLedger,
                         [i \in DOMAIN post.body.sources |-> "alice"],
                         IF Len(post.sink_accounts) = Len(post.body.sinks)
                         THEN post.sink_accounts
                         ELSE [i \in DOMAIN post.body.sinks |-> "alice"])
           refs == {v.trace[i].args[1] : i \in {j \in DOMAIN v.trace :
                                                    v.trace[j].step = "is_valid"}}
       IN tx' = [tx EXCEPT !.pc = "validated",
                           !.call = [op |-> "validate",
                                     post |-> tx.call.post,
                                     post_input |-> tx.call.post_input,
                                     result |-> v.result,
                                     key_input |->
                                        IF refs = {} THEN None
                                        ELSE Some(TransferPostingKeyRef_generate_proof_input(
                                                      CHOOSE r \in refs : TRUE))]]
    /\ UNCHANGED <<ledger, slots, vin, idv, mx, vout, vpc>>

NextTransfer ==
    \/ New
    \/ GenerateProofInput
    \/ KnownConstraints
    \/ IntoPost
    \/ PostGenerateProofInput
    \/ ValidateConverted

SpecTransfer == InitTransfer /\ [][NextTransfer]_vars

(***************************************************************************)
(* The canonical encodings.  A writer takes the fields written to it in    *)
(* order and fails from the write after its capacity on; encoding one      *)
(* field is one write.                                                      *)
(***************************************************************************)
Writer(capacity) == [written |-> <<>>, capacity |-> capacity, result |-> Ok]

\* Encode::encode of one field: Ok with the field written, or the writer's
\* error with nothing written.
encode_field(name, value, writer) ==
    IF Len(writer.written) >= writer.capacity
    THEN [writer EXCEPT !.result = Err("WriteError", <<>>)]
    ELSE [writer EXCEPT !.written = Append(@, [field |-> name, value |-> value])]

\* `?` after an encoding: the next field is encoded only after an Ok.
Then(writer, name, value) ==
    IF is_ok(writer.result) THEN encode_field(name, value, writer) ELSE writer

\* TransferPostBody::encode with the sinks written before the receiver posts.
TransferPostBody_encode_sinks_first(self, writer) ==
    LET w1 == encode_field("asset_id", self.asset_id, writer)
        w2 == Then(w1, "sources", self.sources)
        w3 == Then(w2, "sender_posts", self.sender_posts)
        w4 == Then(w3, "sinks", self.sinks)
        w5 == Then(w4, "receiver_posts", self.receiver_posts)
    IN Then(w5, "proof", self.proof)

\* Encode::encode for TransferPostBody
TransferPostBody_encode(self, writer) ==
    LET w1 == encode_field("asset_id", self.asset_id, writer)
        w2 == Then(w1, "sources", self.sources)
        w3 == Then(w2, "sender_posts", self.sender_posts)
        w4 == Then(w3, "receiver_posts", self.receiver_posts)
        w5 == Then(w4, "sinks", self.sinks)
    IN Then(w5, "proof", self.proof)

\* Encode::encode for BodyWithAccountsRef
BodyWithAccountsRef_encode(self, writer) ==
    LET w1 == TransferPostBody_encode(self.body, writer)
    IN Then(w1, "sink_accounts", self.sink_accounts)

\* Encode::encode for TransferPost
TransferPost_encode(self, writer) ==
    LET w1 == encode_field("authorization_signature", self.authorization_signature, writer)
    IN IF is_ok(w1.result) THEN TransferPostBody_encode(self.body, w1) ELSE w1

\* Writers that fail at the first write, at a later one, or never.
WriterCapacities == 0..7

(***************************************************************************)
(* SpecEncode: one encoding of a post, of its body or of its signed        *)
(* payload into one writer.                                                 *)
(***************************************************************************)
InitEncode ==
    /\ \E sig \in SigCoarse, pub \in PubCoarse, priv \in PrivCoarse, proof \in Proofs :
         vin = ValidateInput(sig, pub, priv, proof)
    /\ vout = NotCalled
    /\ vpc = "held"
    /\ ledger = UsedLedger
    /\ slots = NoSlots
    /\ idv = NoIdentity
    /\ mx = NoMatrix
    /\ tx = NoTransfer

\* TransferPostBody::encode on the body of the post.
EncodeBody ==
    /\ vpc = "held"
    /\ \E capacity \in WriterCapacities :
         tx' = [tx EXCEPT !.call = [op |-> "TransferPostBody::encode",
                                    capacity |-> capacity,
                                    writer |-> TransferPostBody_encode(
                                                   vin.post.body, Writer(capacity))]]
    /\ vpc' = "done"
    /\ UNCHANGED <<ledger, slots, vin, idv, mx, vout>>

\* TransferPost::encode on the post.
EncodePost ==
    /\ vpc = "held"
    /\ \E capacity \in WriterCapacities :
         tx' = [tx EXCEPT !.call = [op |-> "TransferPost::encode",
                                    capacity |-> capacity,
                                    writer |-> TransferPost_encode(
                                                   vin.post, Writer(capacity))]]
    /\ vpc' = "done"
    /\ UNCHANGED <<ledger, slots, vin, idv, mx, vout>>

\* BodyWithAccountsRef::encode on the payload signed for the post.
EncodePayload ==
    /\ vpc = "held"
    /\ \E capacity \in WriterCapacities :
         tx' = [tx EXCEPT !.call = [op |-> "BodyWithAccountsRef::encode",
                                    capacity |-> capacity,
                                    writer |-> BodyWithAccountsRef_encode(
                                                   BodyWithAccountsRef(
                                                       vin.post.body, vin.post.sink_accounts),
                                                   Writer(capacity))]]
    /\ vpc' = "done"
    /\ UNCHANGED <<ledger, slots, vin, idv, mx, vout>>

NextEncode ==
    \/ EncodeBody
    \/ EncodePost
    \/ EncodePayload

SpecEncode == InitEncode /\ [][NextEncode]_vars

(***************************************************************************)
(* SpecAccess: one call of a source or sink accessor on a Transfer built   *)
(* by Transfer::new, on a TransferPost or on its body.                     *)
(***************************************************************************)
\* The indices asked for: every valid one and at least one past the end.
Indices == 0..MaxShape

InitAccess == InitTransfer \/ InitEncode

\* Transfer::source on the Transfer built.
Source ==
    /\ tx.pc = "built"
    /\ \E k \in Indices :
         tx' = [tx EXCEPT !.pc = "done",
                          !.call = [op |-> "Transfer::source", k |-> k,
                                    asset |-> source(unwrap(tx.transfer), k)]]
    /\ UNCHANGED <<ledger, slots, vin, vout, vpc, idv, mx>>

\* Transfer::sink on the Transfer built.
Sink ==
    /\ tx.pc = "built"
    /\ \E k \in Indices :
         tx' = [tx EXCEPT !.pc = "done",
                          !.call = [op |-> "Transfer::sink", k |-> k,
                                    asset |-> sink(unwrap(tx.transfer), k)]]
    /\ UNCHANGED <<ledger, slots, vin, vout, vpc, idv, mx>>

\* TransferPostBody::source on the body of the post.
BodySource ==
    /\ vpc = "held"
    /\ \E k \in Indices :
         tx' = [tx EXCEPT !.call = [op |-> "TransferPostBody::source", k |-> k,
                                    asset |-> source(vin.post.body, k)]]
    /\ vpc' = "done"
    /\ UNCHANGED <<ledger, slots, vin, vout, idv, mx>>

\* TransferPostBody::sink on the body of the post.
BodySink ==
    /\ vpc = "held"
    /\ \E k \in Indices :
         tx' = [tx EXCEPT !.call = [op |-> "TransferPostBody::sink", k |-> k,
                                    asset |-> sink(vin.post.body, k)]]
    /\ vpc' = "done"
    /\ UNCHANGED <<ledger, slots, vin, vout, idv, mx>>

\* TransferPost::source on the post.
PostSource ==
    /\ vpc = "held"
    /\ \E k \in Indices :
         tx' = [tx EXCEPT !.call = [op |-> "TransferPost::source", k |-> k,
                                    asset |-> TransferPost_source(vin.post, k)]]
    /\ vpc' = "done"
    /\ UNCHANGED <<ledger, slots, vin, vout, idv, mx>>

\* TransferPost::sink on the post.
PostSink ==
    /\ vpc = "held"
    /\ \E k \in Indices :
         tx' = [tx EXCEPT !.call = [op |-> "TransferPost::sink", k |-> k,
                                    asset |-> TransferPost_sink(vin.post, k)]]
    /\ vpc' = "done"
    /\ UNCHANGED <<ledger, slots, vin, vout, idv, mx>>

NextAccess ==
    \/ New
    \/ Source
    \/ Sink
    \/ BodySource
    \/ BodySink
    \/ PostSource
    \/ PostSink

SpecAccess == InitAccess /\ [][NextAccess]_vars

(***************************************************************************)
(* IdentityProof: address ownership shown by a ToPublic post that spends   *)
(* a virtual asset.                                                        *)
(***************************************************************************)
\* TransferShape::from_post: the canonical shape of a post, None when it has
\* none.  ToPublic has private senders and exactly one public sink.
TransferShape_from_post(post) ==
    LET body == post.body
        public == is_some(body.asset_id)
    IN IF public /\ Len(body.sources) = 0 /\ Len(body.sender_posts) > 0
          /\ Len(body.sinks) = 1
       THEN Some("ToPublic")
       ELSE IF public /\ Len(body.sources) > 0 /\ Len(body.sender_posts) = 0
               /\ Len(body.receiver_posts) > 0 /\ Len(body.sinks) = 0
       THEN Some("ToPrivate")
       ELSE IF ~public /\ Len(body.sources) = 0 /\ Len(body.sender_posts) > 0
               /\ Len(body.receiver_posts) > 0 /\ Len(body.sinks) = 0
       THEN Some("PrivateTransfer")
       ELSE None

\* ProofSystem::verify: the verifier fails with its own error, or tells
\* whether the proof is valid for the input.
ProofSystem_verify(verifying_context, input, proof) ==
    IF verifying_context = "failing"
    THEN [result |-> Err("ProofSystemError", <<>>), valid |-> FALSE]
    ELSE [result |-> Ok, valid |-> proof = "valid_proof"]

\* TransferPost::has_valid_proof
has_valid_proof(self, verifying_context) ==
    ProofSystem_verify(verifying_context, TransferPost_generate_proof_input(self),
                       self.body.proof)

\* An IdentifiedAsset: the identifier and the asset of a virtual UTXO.
IdentifiedAsset(identifier, asset) == [identifier |-> identifier, asset |-> asset]

\* Parameters::utxo_reconstruct: the UTXO of an asset, an identifier and an
\* address; different arguments give different UTXOs.
utxo_reconstruct(asset, identifier, address) ==
    [asset |-> asset, identifier |-> identifier, address |-> address]

\* ItemHashFunction::item_hash
item_hash(utxo) == <<"item", utxo>>

\* Accumulator::empty, insert and output_from: the output of an accumulator
\* for an item it holds is decided by the items inserted.
Accumulator_empty == <<>>
Accumulator_insert(accumulator, item) == Append(accumulator, item)
Accumulator_output_from(accumulator, item) ==
    IF item \in Range(accumulator) THEN Some(<<"output", accumulator>>) ELSE None

\* The outcome of identity_verification: the result and the checks made.
Verified(result, checks) == [result |-> result, checks |-> checks]

\* The fifth check asking every sender post for the recomputed output.
has_consistent_utxo_accumulator_output_in_every_sender(post, virtual_asset, address) ==
    LET utxo == utxo_reconstruct(virtual_asset.asset, virtual_asset.identifier, address)
        utxo_accumulator == Accumulator_insert(Accumulator_empty, item_hash(utxo))
        utxo_accumulator_output ==
            unwrap(Accumulator_output_from(utxo_accumulator, item_hash(utxo)))
    IN \A i \in DOMAIN post.body.sender_posts :
           post.body.sender_posts[i].utxo_accumulator_output = utxo_accumulator_output

\* identity_verification, the fifth check: some sender post carries the
\* accumulator output recomputed from the virtual asset and the address.
has_consistent_utxo_accumulator_output(post, virtual_asset, address) ==
    LET utxo == utxo_reconstruct(virtual_asset.asset, virtual_asset.identifier, address)
        utxo_accumulator == Accumulator_insert(Accumulator_empty, item_hash(utxo))
        utxo_accumulator_output ==
            unwrap(Accumulator_output_from(utxo_accumulator, item_hash(utxo)))
    IN \E i \in DOMAIN post.body.sender_posts :
           post.body.sender_posts[i].utxo_accumulator_output = utxo_accumulator_output

\* identity_verification with the signature checked before the sink accounts.
identity_verification_signature_first(self, verifying_context, virtual_asset, address, public_account) ==
    LET post == self.transfer_post
        proof == has_valid_proof(post, verifying_context)
    IN IF TransferShape_from_post(post) # Some("ToPublic")
       THEN Verified(Err("InvalidShape", <<>>), <<"shape">>)
       ELSE IF ~is_ok(has_valid_authorization_signature(post))
       THEN Verified(Err("InvalidSignature", <<>>), <<"shape", "signature">>)
       ELSE IF post.sink_accounts # <<public_account>>
       THEN Verified(Err("InvalidSinkAccount", <<>>), <<"shape", "signature", "sink_accounts">>)
       ELSE IF ~is_ok(proof.result) \/ ~proof.valid
       THEN Verified(Err("InvalidProof", <<>>), <<"shape", "signature", "sink_accounts", "proof">>)
       ELSE IF ~has_consistent_utxo_accumulator_output(post, virtual_asset, address)
       THEN Verified(Err("InconsistentUtxoAccumulatorOutput", <<>>),
                     <<"shape", "signature", "sink_accounts", "proof", "utxo_accumulator_output">>)
       ELSE Verified(Ok, <<"shape", "signature", "sink_accounts", "proof", "utxo_accumulator_output">>)

\* IdentityProof::identity_verification
identity_verification(self, verifying_context, virtual_asset, address, public_account) ==
    LET post == self.transfer_post
        proof == has_valid_proof(post, verifying_context)
    IN IF TransferShape_from_post(post) # Some("ToPublic")
       THEN Verified(Err("InvalidShape", <<>>), <<"shape">>)
       ELSE IF post.sink_accounts # <<public_account>>
       THEN Verified(Err("InvalidSinkAccount", <<>>), <<"shape", "sink_accounts">>)
       ELSE IF ~is_ok(has_valid_authorization_signature(post))
       THEN Verified(Err("InvalidSignature", <<>>), <<"shape", "sink_accounts", "signature">>)
       ELSE IF ~is_ok(proof.result) \/ ~proof.valid
       THEN Verified(Err("InvalidProof", <<>>), <<"shape", "sink_accounts", "signature", "proof">>)
       ELSE IF ~has_consistent_utxo_accumulator_output(post, virtual_asset, address)
       THEN Verified(Err("InconsistentUtxoAccumulatorOutput", <<>>),
                     <<"shape", "sink_accounts", "signature", "proof", "utxo_accumulator_output">>)
       ELSE Verified(Ok, <<"shape", "sink_accounts", "signature", "proof", "utxo_accumulator_output">>)

\* The addresses and virtual assets of the identity proofs.
Addresses == {"address1", "address2"}
VirtualAssets ==
    {IdentifiedAsset("identifier", [id |-> "X", value |-> v]) : v \in AssetValues}

\* The accumulator output a sender of the virtual asset at the address uses.
VirtualOutput(virtual_asset, address) ==
    <<"output", <<item_hash(utxo_reconstruct(virtual_asset.asset,
                                             virtual_asset.identifier, address))>> >>

\* The sender post that spends the virtual asset at the address.
VirtualSenderPost(virtual_asset, address) ==
    [utxo_accumulator_output |-> VirtualOutput(virtual_asset, address), nullifier |-> N1]

VirtualSenderPosts ==
    {VirtualSenderPost(a, address) : a \in VirtualAssets, address \in Addresses}

\* The post of an identity proof: unsigned, signed over its own body and
\* sink accounts, or signed over other sink accounts.
IdentityPost(signing, body, sink_accounts) ==
    TransferPost(IF signing = "unsigned" THEN None
                 ELSE Some([authorization_key |-> "authorization_key",
                            message |-> BodyWithAccountsRef(
                                body,
                                IF signing = "signed" THEN sink_accounts
                                ELSE <<"carol">>)]),
                 body, sink_accounts)

\* The state of one verification.
IdentityState(pc, proof, verifying_context, virtual_asset, address, public_account, out) ==
    [pc |-> pc, proof |-> proof, verifying_context |-> verifying_context,
     virtual_asset |-> virtual_asset, address |-> address,
     public_account |-> public_account, out |-> out]

(***************************************************************************)
(* SpecIdentity: one identity_verification call on one IdentityProof.      *)
(***************************************************************************)
\* The proofs are every shape, sink-account list, signature and proof for
\* one claimed asset and address, or every claimed asset and address for the
\* posts of the ToPublic shape.
InitIdentity ==
    /\ \/ \E asset_id \in OptionalAssetIds, sources \in {<<>>, <<1>>},
             sender_posts \in SeqsUpTo(VirtualSenderPosts, MaxShape),
             receiver_posts \in {<<>>, <<ReceiverPostOf(U1)>>},
             sinks \in {<<>>, <<1>>, <<1, 1>>},
             sink_accounts \in {<<>>, <<"alice">>, <<"bob">>, <<"alice", "alice">>},
             signing \in {"unsigned", "signed", "signed_otherwise"},
             proof \in Proofs, verifying_context \in {"matching", "failing"} :
            idv = IdentityState("ready",
                      [transfer_post |->
                          IdentityPost(signing,
                              TransferPostBody(asset_id, sources, sender_posts,
                                               receiver_posts, sinks, proof),
                              sink_accounts)],
                      verifying_context,
                      IdentifiedAsset("identifier", [id |-> "X", value |-> 1]),
                      "address1", "alice", Verified(Err("NotCalled", <<>>), <<>>))
       \/ \E sender_posts \in SeqsUpTo(VirtualSenderPosts, MaxShape),
             sink_accounts \in {<<"alice">>, <<"bob">>},
             signing \in {"unsigned", "signed", "signed_otherwise"},
             proof \in Proofs, verifying_context \in {"matching", "failing"},
             virtual_asset \in VirtualAssets, address \in Addresses,
             public_account \in Accounts :
            idv = IdentityState("ready",
                      [transfer_post |->
                          IdentityPost(signing,
                              TransferPostBody(Some("X"), <<>>, sender_posts,
                                               <<ReceiverPostOf(U1)>>, <<1>>, proof),
                              sink_accounts)],
                      verifying_context, virtual_asset, address, public_account,
                      Verified(Err("NotCalled", <<>>), <<>>))
    /\ ledger = UsedLedger
    /\ slots = NoSlots
    /\ mx = NoMatrix
    /\ tx = NoTransfer
    /\ vin = NoInput
    /\ vout = NotCalled
    /\ vpc = "unused"

\* IdentityProof::identity_verification
IdentityVerification ==
    /\ idv.pc = "ready"
    /\ idv' = [idv EXCEPT !.pc = "done",
                          !.out = identity_verification(
                                      idv.proof, idv.verifying_context, idv.virtual_asset,
                                      idv.address, idv.public_account)]
    /\ UNCHANGED <<ledger, slots, vin, vout, vpc, tx, mx>>

NextIdentity == IdentityVerification

SpecIdentity == InitIdentity /\ [][NextIdentity]_vars

(***************************************************************************)
(* Linear algebra over the field of the Poseidon parameters.  A matrix is  *)
(* the sequence of its rows; the code counts rows and columns from zero,   *)
(* sequences from one.                                                     *)
(***************************************************************************)
\* The field: the integers modulo a prime.
FieldElements == 0..2
FieldOrder == Cardinality(FieldElements)
F_zero == 0
F_one == 1
F_add(a, b) == (a + b) % FieldOrder
F_sub(a, b) == (a + FieldOrder - b) % FieldOrder
F_mul(a, b) == (a * b) % FieldOrder
F_inverse(a) ==
    IF a = F_zero THEN None
    ELSE Some(CHOOSE b \in FieldElements : F_mul(a, b) = F_one)

Min(a, b) == IF a <= b THEN a ELSE b

\* What a call gives: a value, or a panic.
Returned(value) == [panic |-> FALSE, value |-> value]
Panicked == [panic |-> TRUE, value |-> None]

RECURSIVE zip_fold(_, _, _)
\* a.iter().zip(b).fold(zero, |acc, (x, y)| acc + x * y) over the first n pairs.
zip_fold(a, b, n) ==
    IF n = 0 THEN F_zero ELSE F_add(zip_fold(a, b, n - 1), F_mul(a[n], b[n]))

\* inner_product: zip stops at the end of the shorter vector.
inner_product(a, b) == zip_fold(a, b, Min(Len(a), Len(b)))

\* vec_sub
vec_sub(a, b) == [i \in 1..Min(Len(a), Len(b)) |-> F_sub(a[i], b[i])]

\* scalar_vec_mul
scalar_vec_mul(scalar, v) == [i \in DOMAIN v |-> F_mul(scalar, v[i])]

\* eliminate_row
eliminate_row(row, factor, pivot) == vec_sub(row, scalar_vec_mul(factor, pivot))

\* kronecker_delta
kronecker_delta(i, j) == IF i = j THEN F_one ELSE F_zero

\* Matrix::num_rows and Matrix::num_columns
num_rows(self) == Len(self)
num_columns(self) == Len(self[1])

\* Matrix::is_square
is_square(self) == num_rows(self) = num_columns(self)

\* Matrix::is_identity
is_identity(self) ==
    /\ is_square(self)
    /\ \A i \in 1..num_rows(self), j \in 1..num_columns(self) :
          self[i][j] = kronecker_delta(i, j)

\* Matrix::identity
identity(n) == [i \in 1..n |-> [j \in 1..n |-> kronecker_delta(i, j)]]

\* Matrix::transpose: the elements of each row pushed onto the rows of the
\* transposed matrix in turn.
transpose(self) ==
    [j \in 1..num_columns(self) |-> [i \in 1..num_rows(self) |-> self[i][j]]]

\* Matrix::matmul
matmul(self, other) ==
    IF num_rows(self) # num_columns(other) THEN None
    ELSE LET other_t == transpose(other)
         IN Some([i \in 1..num_rows(self) |->
                    [j \in 1..num_rows(other_t) |-> inner_product(self[i], other_t[j])]])

\* Matrix::mul_col_vec
mul_col_vec(self, v) ==
    IF num_rows(self) # Len(v) THEN None
    ELSE Some([i \in 1..num_rows(self) |-> inner_product(self[i], v)])

RECURSIVE column_fold(_, _, _, _)
\* self.0.iter().zip(v).fold(zero, |acc, (row, x)| acc + x * row[j]) over the
\* first n pairs, j counted from zero.
column_fold(self, v, j, n) ==
    IF n = 0 THEN F_zero
    ELSE F_add(column_fold(self, v, j, n - 1), F_mul(v[n], self[n][j + 1]))

\* Matrix::mul_row_vec_at_left: j runs over 0..v.len(), and row[j] panics
\* past the end of a row.
mul_row_vec_at_left(self, v) ==
    IF num_rows(self) # Len(v) THEN Returned(None)
    ELSE IF \E j \in 0..(Len(v) - 1) : j >= num_columns(self) THEN Panicked
    ELSE Returned(Some([j \in 1..Len(v) |->
                          column_fold(self, v, j - 1, Min(num_rows(self), Len(v)))]))

\* Vec::remove and Vec::insert(0, _), the index counted from one.
Without(seq, k) == SubSeq(seq, 1, Min(k - 1, Len(seq))) \o SubSeq(seq, k + 1, Len(seq))
MovedToFront(seq, k) == <<seq[k]>> \o Without(seq, k)

\* What eliminate and the two reductions give: the matrix returned, the
\* shadow as the call leaves it, and whether the call panicked.
Eliminated(panic, result, shadow) == [panic |-> panic, result |-> result, shadow |-> shadow]

\* The rows with a non-zero entry in `column` and zeros before it.
PivotCandidates(self, column) ==
    {i \in 1..num_rows(self) :
        /\ self[i][column + 1] # F_zero
        /\ \A j \in 1..column : self[i][j] = F_zero}

\* eliminate with the last candidate row as the pivot.
eliminate_last_pivot(self, column, shadow) ==
    IF column >= num_columns(self) THEN Eliminated(TRUE, None, shadow)
    ELSE IF PivotCandidates(self, column) = {} THEN Eliminated(FALSE, None, shadow)
    ELSE LET pivot_index == CHOOSE i \in PivotCandidates(self, column) :
                               \A k \in PivotCandidates(self, column) : i >= k
             pivot == self[pivot_index]
             inv_pivot == unwrap(F_inverse(pivot[column + 1]))
             factor == [i \in 1..num_rows(self) |-> F_mul(self[i][column + 1], inv_pivot)]
             rows == [i \in 1..num_rows(self) |->
                        IF self[i][column + 1] = F_zero THEN self[i]
                        ELSE eliminate_row(self[i], factor[i], pivot)]
             shadow_rows == [i \in 1..num_rows(shadow) |->
                               IF i # pivot_index /\ i <= num_rows(self)
                                  /\ self[i][column + 1] # F_zero
                               THEN eliminate_row(shadow[i], factor[i], shadow[pivot_index])
                               ELSE shadow[i]]
         IN Eliminated(FALSE, Some(<<pivot>> \o Without(rows, pivot_index)),
                       MovedToFront(shadow_rows, pivot_index))

\* Matrix::eliminate: the first candidate row is the pivot; row[column]
\* panics past the end of a row.  The shadow has the rows of self.
eliminate(self, column, shadow) ==
    IF column >= num_columns(self) THEN Eliminated(TRUE, None, shadow)
    ELSE IF PivotCandidates(self, column) = {} THEN Eliminated(FALSE, None, shadow)
    ELSE LET pivot_index == CHOOSE i \in PivotCandidates(self, column) :
                               \A k \in PivotCandidates(self, column) : i <= k
             pivot == self[pivot_index]
             inv_pivot == unwrap(F_inverse(pivot[column + 1]))
             factor == [i \in 1..num_rows(self) |-> F_mul(self[i][column + 1], inv_pivot)]
             rows == [i \in 1..num_rows(self) |->
                        IF self[i][column + 1] = F_zero THEN self[i]
                        ELSE eliminate_row(self[i], factor[i], pivot)]
             shadow_rows == [i \in 1..num_rows(shadow) |->
                               IF i # pivot_index /\ i <= num_rows(self)
                                  /\ self[i][column + 1] # F_zero
                               THEN eliminate_row(shadow[i], factor[i], shadow[pivot_index])
                               ELSE shadow[i]]
         IN Eliminated(FALSE, Some(<<pivot>> \o Without(rows, pivot_index)),
                       MovedToFront(shadow_rows, pivot_index))

RECURSIVE upper_triangular_from(_, _, _, _, _, _)
\* The loop of upper_triangular from `column` on: eliminate, then move the
\* first rows of the matrix and of the shadow to the results.
upper_triangular_from(current, shadow_matrix, result, shadow_result, column, size) ==
    IF column >= size - 1
    THEN Eliminated(FALSE, Some(Append(result, current[1])),
                    Append(shadow_result, shadow_matrix[1]))
    ELSE LET e == eliminate(current, column, shadow_matrix)
         IN IF e.result = None THEN Eliminated(e.panic, None, <<>>)
            ELSE upper_triangular_from(Tail(unwrap(e.result)), Tail(e.shadow),
                                       Append(result, unwrap(e.result)[1]),
                                       Append(shadow_result, e.shadow[1]),
                                       column + 1, size)

\* SquareMatrix::upper_triangular: the shadow is assigned only on success.
upper_triangular(self, shadow) ==
    LET u == upper_triangular_from(self, shadow, <<>>, <<>>, 0, num_rows(self))
    IN IF u.result = None THEN Eliminated(u.panic, None, shadow) ELSE u

Reversed(seq) == [i \in 1..Len(seq) |-> seq[Len(seq) + 1 - i]]

RECURSIVE reduce_row(_, _, _, _, _, _, _)
\* The inner loop of reduce_to_identity from j on: the normalized row and its
\* shadow less the multiples of the rows reduced before.
reduce_row(normalized, shadow_normalized, result, shadow_result, j, i, size) ==
    IF j >= i THEN <<normalized, shadow_normalized>>
    ELSE reduce_row(vec_sub(normalized,
                            scalar_vec_mul(normalized[size - j], result[j + 1])),
                    vec_sub(shadow_normalized,
                            scalar_vec_mul(normalized[size - j], shadow_result[j + 1])),
                    result, shadow_result, j + 1, i, size)

RECURSIVE reduce_from(_, _, _, _, _, _)
\* The outer loop of reduce_to_identity from i on, from the last row up.
reduce_from(self, shadow, result, shadow_result, i, size) ==
    IF i >= size
    THEN Eliminated(FALSE, Some(Reversed(result)), Reversed(shadow_result))
    ELSE LET row == self[size - i]
             inv == F_inverse(row[size - i])
         IN IF inv = None THEN Eliminated(FALSE, None, shadow)
            ELSE LET reduced == reduce_row(scalar_vec_mul(unwrap(inv), row),
                                           scalar_vec_mul(unwrap(inv), shadow[size - i]),
                                           result, shadow_result, 0, i, size)
                 IN reduce_from(self, shadow, Append(result, reduced[1]),
                                Append(shadow_result, reduced[2]), i + 1, size)

\* reduce_to_identity that leaves the shadow as it was given.
reduce_to_identity_keeping_shadow(self, shadow) ==
    LET r == reduce_from(self, shadow, <<>>, <<>>, 0, num_rows(self))
    IN Eliminated(r.panic, r.result, shadow)

\* SquareMatrix::reduce_to_identity
reduce_to_identity(self, shadow) ==
    reduce_from(self, shadow, <<>>, <<>>, 0, num_rows(self))

\* invert without the reduction of the upper triangular matrix.
invert_unreduced(self) ==
    LET u == upper_triangular(self, identity(num_rows(self)))
    IN IF u.result = None THEN None ELSE Some(u.shadow)

\* SquareMatrix::invert
invert(self) ==
    LET u == upper_triangular(self, identity(num_rows(self)))
    IN IF u.result = None THEN None
       ELSE LET r == reduce_to_identity(unwrap(u.result), u.shadow)
            IN IF r.result = None THEN None ELSE Some(r.shadow)

\* SquareMatrix::is_invertible
is_invertible(self) == is_some(invert(self))

\* minor that deletes column i and row j.
minor_transposed(self, i, j) ==
    IF num_rows(self) <= 1 THEN Returned(None)
    ELSE IF i >= num_columns(self) THEN Panicked
    ELSE Returned(Some([k \in 1..Len(Without(self, j + 1)) |->
                          Without(Without(self, j + 1)[k], i + 1)]))

\* SquareMatrix::minor: the rows other than i, each with element j removed;
\* Vec::remove panics past the end of a row.
minor(self, i, j) ==
    IF num_rows(self) <= 1 THEN Returned(None)
    ELSE IF j >= num_columns(self) THEN Panicked
    ELSE Returned(Some([k \in 1..Len(Without(self, i + 1)) |->
                          Without(Without(self, i + 1)[k], j + 1)]))

\* The matrices of a shape: every element of the field in every place of a
\* matrix of up to `places` places, zero or one in every place of a larger one.
MatricesOver(rows, columns, places) ==
    [1..rows -> [1..columns ->
        IF rows * columns <= places THEN FieldElements ELSE {F_zero, F_one}]]

\* The matrices one operation is applied to, and the operands of a product.
Matrices(rows, columns) == MatricesOver(rows, columns, 9)
Operands(rows, columns) == MatricesOver(rows, columns, 4)

Vectors(n) == [1..n -> FieldElements]

\* The state of one operation: its name, its arguments and its outcome.
MatrixState(pc, op, args, out) == [pc |-> pc, op |-> op, args |-> args, out |-> out]

(***************************************************************************)
(* SpecMatmul: one product of two rectangular matrices.                    *)
(***************************************************************************)
InitMatmul ==
    /\ \E r1 \in 1..MaxRect, c1 \in 1..MaxRect, r2 \in 1..MaxRect, c2 \in 1..MaxRect :
         \E self \in Operands(r1, c1), other \in Operands(r2, c2) :
            mx = MatrixState("ready", "matmul", [self |-> self, other |-> other], None)
    /\ idv = NoIdentity
    /\ ledger = UsedLedger
    /\ slots = NoSlots
    /\ tx = NoTransfer
    /\ vin = NoInput
    /\ vout = NotCalled
    /\ vpc = "unused"

\* Matrix::matmul
Matmul ==
    /\ mx.pc = "ready"
    /\ mx.op = "matmul"
    /\ mx' = [mx EXCEPT !.pc = "done", !.out = matmul(mx.args.self, mx.args.other)]
    /\ UNCHANGED <<ledger, slots, vin, vout, vpc, tx, idv>>

NextMatmul == Matmul

SpecMatmul == InitMatmul /\ [][NextMatmul]_vars

(***************************************************************************)
(* SpecEliminate: one elimination of a column of a matrix, the shadow      *)
(* being the identity or a copy of the matrix.                             *)
(***************************************************************************)
InitEliminate ==
    /\ \E rows \in 1..MaxDim, columns \in 1..MaxDim :
         \E self \in Matrices(rows, columns), column \in 0..(columns - 1) :
         \E shadow \in {identity(rows), self} :
            mx = MatrixState("ready", "eliminate",
                             [self |-> self, column |-> column, shadow |-> shadow], None)
    /\ idv = NoIdentity
    /\ ledger = UsedLedger
    /\ slots = NoSlots
    /\ tx = NoTransfer
    /\ vin = NoInput
    /\ vout = NotCalled
    /\ vpc = "unused"

\* Matrix::eliminate
Eliminate ==
    /\ mx.pc = "ready"
    /\ mx.op = "eliminate"
    /\ mx' = [mx EXCEPT !.pc = "done",
                        !.out = eliminate(mx.args.self, mx.args.column, mx.args.shadow)]
    /\ UNCHANGED <<ledger, slots, vin, vout, vpc, tx, idv>>

NextEliminate == Eliminate

SpecEliminate == InitEliminate /\ [][NextEliminate]_vars

(***************************************************************************)
(* SpecInvert: one inversion of a square matrix, or one question whether   *)
(* it is invertible.                                                       *)
(***************************************************************************)
InitInvert ==
    /\ \E size \in 1..MaxDim :
         \E self \in Matrices(size, size), op \in {"invert", "is_invertible"} :
            mx = MatrixState("ready", op, [self |-> self], None)
    /\ idv = NoIdentity
    /\ ledger = UsedLedger
    /\ slots = NoSlots
    /\ tx = NoTransfer
    /\ vin = NoInput
    /\ vout = NotCalled
    /\ vpc = "unused"

\* SquareMatrix::invert
Invert ==
    /\ mx.pc = "ready"
    /\ mx.op = "invert"
    /\ mx' = [mx EXCEPT !.pc = "done", !.out = invert(mx.args.self)]
    /\ UNCHANGED <<ledger, slots, vin, vout, vpc, tx, idv>>

\* SquareMatrix::is_invertible
IsInvertible ==
    /\ mx.pc = "ready"
    /\ mx.op = "is_invertible"
    /\ mx' = [mx EXCEPT !.pc = "done", !.out = is_invertible(mx.args.self)]
    /\ UNCHANGED <<ledger, slots, vin, vout, vpc, tx, idv>>

NextInvert ==
    \/ Invert
    \/ IsInvertible

SpecInvert == InitInvert /\ [][NextInvert]_vars

(***************************************************************************)
(* SpecReduce: a square matrix is brought to upper triangular form with an *)
(* identity shadow, and that form is reduced to the identity.              *)
(***************************************************************************)
InitReduce ==
    /\ \E size \in 1..MaxDim :
         \E self \in Matrices(size, size) :
            mx = MatrixState("ready", "upper_triangular",
                             [self |-> self, shadow |-> identity(size)], None)
    /\ idv = NoIdentity
    /\ ledger = UsedLedger
    /\ slots = NoSlots
    /\ tx = NoTransfer
    /\ vin = NoInput
    /\ vout = NotCalled
    /\ vpc = "unused"

\* SquareMatrix::upper_triangular
UpperTriangular ==
    /\ mx.pc = "ready"
    /\ mx.op = "upper_triangular"
    /\ mx' = [mx EXCEPT !.pc = "triangular",
                        !.out = upper_triangular(mx.args.self, mx.args.shadow)]
    /\ UNCHANGED <<ledger, slots, vin, vout, vpc, tx, idv>>

\* SquareMatrix::reduce_to_identity on the upper triangular matrix and the
\* shadow upper_triangular left.
ReduceToIdentity ==
    /\ mx.pc = "triangular"
    /\ mx.out.result # None
    /\ mx' = MatrixState("done", "reduce_to_identity",
                         [self |-> unwrap(mx.out.result), shadow |-> mx.out.shadow,
                          original |-> mx.args.self],
                         reduce_to_identity(unwrap(mx.out.result), mx.out.shadow))
    /\ UNCHANGED <<ledger, slots, vin, vout, vpc, tx, idv>>

NextReduce ==
    \/ UpperTriangular
    \/ ReduceToIdentity

SpecReduce == InitReduce /\ [][NextReduce]_vars

(***************************************************************************)
(* SpecCircuit: the circuit of a shape is compiled without a Transfer, or  *)
(* a Transfer is built and its circuit is filled with its values.          *)
(***************************************************************************)
\* Transfer::unknown_constraints for the shape of the arguments.
UnknownConstraints ==
    /\ tx.pc = "args"
    /\ LET S == ShapeOf(tx.args.sources, tx.args.senders, tx.args.receivers, tx.args.sinks)
       IN tx' = [tx EXCEPT !.pc = "done",
                           !.call = [op |-> "unknown_constraints",
                                     compiler |-> unknown_constraints(S)]]
    /\ UNCHANGED <<ledger, slots, vin, idv, mx, vout, vpc>>

\* Transfer::generate_context for the shape of the arguments.
GenerateContext ==
    /\ tx.pc = "args"
    /\ \E outcome \in {"ok", "error"} :
        LET S == ShapeOf(tx.args.sources, tx.args.senders, tx.args.receivers, tx.args.sinks)
            r == generate_context(S, outcome)
        IN tx' = [tx EXCEPT !.pc = "done",
                            !.call = [op |-> "generate_context",
                                      compiler |-> unknown_constraints(S),
                                      result |-> r.result, contexts |-> r.contexts]]
    /\ UNCHANGED <<ledger, slots, vin, idv, mx, vout, vpc>>

NextCircuit ==
    \/ New
    \/ KnownConstraints
    \/ UnknownConstraints
    \/ GenerateContext

SpecCircuit == InitTransfer /\ [][NextCircuit]_vars

(***************************************************************************)
(* SpecMinor: one minor of a square matrix.                                *)
(***************************************************************************)
InitMinor ==
    /\ \E size \in 1..MaxDim :
         \E self \in Matrices(size, size), i \in 0..(size - 1), j \in 0..(size - 1) :
            mx = MatrixState("ready", "minor", [self |-> self, i |-> i, j |-> j], None)
    /\ idv = NoIdentity
    /\ ledger = UsedLedger
    /\ slots = NoSlots
    /\ tx = NoTransfer
    /\ vin = NoInput
    /\ vout = NotCalled
    /\ vpc = "unused"

\* SquareMatrix::minor
Minor ==
    /\ mx.pc = "ready"
    /\ mx.op = "minor"
    /\ mx' = [mx EXCEPT !.pc = "done", !.out = minor(mx.args.self, mx.args.i, mx.args.j)]
    /\ UNCHANGED <<ledger, slots, vin, vout, vpc, tx, idv>>

NextMinor == Minor

SpecMinor == InitMinor /\ [][NextMinor]_vars

(***************************************************************************)
(* SpecMulVec: one product of a rectangular matrix and a vector, the       *)
(* vector as a column on the right or as a row on the left.                *)
(***************************************************************************)
InitMulVec ==
    /\ \E rows \in 1..MaxRect, columns \in 1..MaxRect, n \in 1..MaxRect :
         \E self \in Operands(rows, columns), v \in Vectors(n),
            op \in {"mul_col_vec", "mul_row_vec_at_left"} :
            mx = MatrixState("ready", op, [self |-> self, v |-> v], None)
    /\ idv = NoIdentity
    /\ ledger = UsedLedger
    /\ slots = NoSlots
    /\ tx = NoTransfer
    /\ vin = NoInput
    /\ vout = NotCalled
    /\ vpc = "unused"

\* Matrix::mul_col_vec
MulColVec ==
    /\ mx.pc = "ready"
    /\ mx.op = "mul_col_vec"
    /\ mx' = [mx EXCEPT !.pc = "done", !.out = mul_col_vec(mx.args.self, mx.args.v)]
    /\ UNCHANGED <<ledger, slots, vin, vout, vpc, tx, idv>>

\* Matrix::mul_row_vec_at_left
MulRowVecAtLeft ==
    /\ mx.pc = "ready"
    /\ mx.op = "mul_row_vec_at_left"
    /\ mx' = [mx EXCEPT !.pc = "done", !.out = mul_row_vec_at_left(mx.args.self, mx.args.v)]
    /\ UNCHANGED <<ledger, slots, vin, vout, vpc, tx, idv>>

NextMulVec ==
    \/ MulColVec
    \/ MulRowVecAtLeft

SpecMulVec == InitMulVec /\ [][NextMulVec]_vars

(***************************************************************************)
(* Spec: submissions validated against the ledger and then posted to it.   *)
(* Validations and posts of different submissions interleave freely.       *)
(***************************************************************************)
Init ==
    /\ ledger = UsedLedger
    /\ slots = NoSlots
    /\ idv = NoIdentity
    /\ mx = NoMatrix
    /\ tx = NoTransfer
    /\ vin = NoInput
    /\ vout = NotCalled
    /\ vpc = "unused"

\* TransferPost::validate on submission k: consumes the post and, on Ok,
\* leaves the posting key.
Validate(k) ==
    /\ slots[k].state = "unvalidated"
    /\ \E in \in LifecycleInputs :
        LET r == validate(in.post, ledger, in.source_accounts, in.sink_accounts) IN
        /\ slots' = [slots EXCEPT ![k] =
                IF is_some(r.key)
                THEN Slot("validated", r.key, r.result, r.trace, None)
                ELSE Slot("rejected", None, r.result, <<>>, None)]
        /\ ledger' = r.ledger
    /\ UNCHANGED <<vin, idv, mx, vout, vpc, tx>>

\* Post that leaves the key with the submission.
PostKeepingKey(k) ==
    /\ slots[k].state = "validated"
    /\ LET r == TransferPostingKey_post(unwrap(slots[k].key), ledger) IN
        /\ slots' = [slots EXCEPT ![k] =
                Slot("validated", slots[k].key, r.result, slots[k].trace, r.event)]
        /\ ledger' = r.ledger
    /\ UNCHANGED <<vin, idv, mx, vout, vpc, tx>>

\* TransferPostingKey::post on submission k: consumes the key.
Post(k) ==
    /\ slots[k].state = "validated"
    /\ LET r == TransferPostingKey_post(unwrap(slots[k].key), ledger) IN
        /\ slots' = [slots EXCEPT ![k] =
                Slot(IF is_ok(r.result) THEN "posted" ELSE "post_failed",
                     None, r.result, r.trace, r.event)]
        /\ ledger' = r.ledger
    /\ UNCHANGED <<vin, idv, mx, vout, vpc, tx>>

Next ==
    \/ \E k \in 1..MaxKeys : Validate(k)
    \/ \E k \in 1..MaxKeys : Post(k)

Spec == Init /\ [][Next]_vars

(***************************************************************************)
(* Properties of the life cycle (Spec).                                    *)
(***************************************************************************)
Keys == 1..MaxKeys

StepNames(t) == {t[i].step : i \in DOMAIN t}

Count(t, name) == Cardinality({i \in DOMAIN t : t[i].step = name})

\* Submission k went from validated to posted or post_failed in this step.
PostedNow(k) ==
    /\ slots[k].state = "validated"
    /\ slots'[k].state \in {"posted", "post_failed"}

\* Submission k went from unvalidated to validated or rejected in this step.
ValidatedNow(k) ==
    /\ slots[k].state = "unvalidated"
    /\ slots'[k].state \in {"validated", "rejected"}

\* The steps recorded with a key show every check of validate, each passed.
KeyProvenance(slot) ==
    LET key == unwrap(slot.key)
        t == slot.trace
    IN
    /\ is_ok(slot.result)
    /\ t # <<>>
    /\ \A i \in DOMAIN t : t[i].ok
    /\ {"has_valid_authorization_signature", "check_shape", "all_unequal(nullifier)",
        "all_unequal(utxo)", "is_valid"} \subseteq StepNames(t)
    /\ Count(t, "SenderPost::validate") = Len(key.sender_posting_keys)
    /\ Count(t, "ReceiverPost::validate") = Len(key.receiver_posting_keys)
    /\ (key.source_posting_keys # <<>> => "check_source_accounts" \in StepNames(t))
    /\ (key.sink_posting_keys # <<>> => "check_sink_accounts" \in StepNames(t))
    /\ t[Len(t)].step = "is_valid"

\* C1: the ledger changes only in a step in which TransferPostingKey::post
\* runs on a submission that holds a posting key, and a submission holds a
\* posting key only if its validation returned Ok after the signature check,
\* the public-participant check, both duplicate checks, the validation of
\* every sender and receiver post and is_valid all succeeded.
C1_MutationOnlyThroughValidatedKey ==
    /\ [][ledger' # ledger =>
            \E k \in Keys : PostedNow(k) /\ is_some(slots[k].key)]_vars
    /\ [](\A k \in Keys : is_some(slots[k].key) => KeyProvenance(slots[k]))

C1_Witness ==
    \E k \in Keys :
        /\ slots[k].state = "posted"
        /\ ledger.nullifiers # UsedLedger.nullifiers
        /\ ledger.utxos # UsedLedger.utxos

\* C2: a validate call, whether it returns Ok with a key or an error, leaves
\* the spent nullifiers, the registered UTXOs and the public balances as
\* they were.
C2_ValidateLeavesLedgerUnchanged ==
    [][(\E k \in Keys : ValidatedNow(k)) =>
            /\ ledger'.nullifiers = ledger.nullifiers
            /\ ledger'.utxos = ledger.utxos
            /\ ledger'.balances = ledger.balances]_vars

C2_Witness ==
    \E j, k \in Keys :
        /\ slots[j].state = "validated"
        /\ Len(unwrap(slots[j].key).sender_posting_keys) > 0
        /\ slots[k].state = "rejected"
        /\ slots[k].result = Err("Sender", <<"AssetSpent">>)

\* C3: a submission moves only forward, unvalidated -> validated (or
\* rejected) -> posted (or post_failed); it holds a key exactly while it is
\* validated, and each run of the mutation sequence takes the key of one
\* validated submission, which never is validated or unvalidated again.
Forward ==
    {<<"unvalidated", "validated">>, <<"unvalidated", "rejected">>,
     <<"validated", "posted">>, <<"validated", "post_failed">>}

C3_LifeCycleOnlyForward ==
    [][/\ \A k \in Keys :
            /\ slots'[k] # slots[k] => <<slots[k].state, slots'[k].state>> \in Forward
            /\ is_some(slots'[k].key) <=> slots'[k].state = "validated"
       /\ ledger' # ledger => \E k \in Keys : PostedNow(k) /\ ~is_some(slots'[k].key)]_vars

C3_Witness ==
    \E j, k \in Keys :
        /\ slots[j].state = "posted"
        /\ slots[j].trace # <<>>
        /\ slots[k].state = "post_failed"

\* The mutating calls a key stands for, in the order post must make them.
ExpectedCalls(key) ==
    [i \in 1..Len(key.sender_posting_keys) |->
        [step |-> "spend", args |-> <<key.sender_posting_keys[i].nullifier>>]]
    \o [i \in 1..Len(key.receiver_posting_keys) |->
        [step |-> "register", args |-> <<key.receiver_posting_keys[i].utxo>>]]
    \o (IF is_some(key.asset_id)
        THEN <<[step |-> "update_public_balances",
                args |-> <<unwrap(key.asset_id), key.source_posting_keys,
                           key.sink_posting_keys, key.proof>>]>>
        ELSE <<>>)

\* The calls of trace t are the first Len(t) calls of ExpectedCalls(key), all
\* but possibly the last of them successful.
FollowsOrder(key, t) ==
    /\ Len(t) <= Len(ExpectedCalls(key))
    /\ \A i \in DOMAIN t :
        /\ t[i].step = ExpectedCalls(key)[i].step
        /\ t[i].args = ExpectedCalls(key)[i].args
        /\ i < Len(t) => t[i].ok

\* C4: post spends every sender key, then registers every receiver key, then
\* calls update_public_balances with the source and sink tokens and the proof
\* marker of the key exactly when the key has an asset id; on success every
\* one of these calls was made and the event of the key is returned.
C4_PostOrder ==
    [][\A k \in Keys : PostedNow(k) =>
          LET key == unwrap(slots[k].key)
              out == slots'[k]
          IN
          /\ FollowsOrder(key, out.trace)
          /\ (~is_some(key.asset_id) => "update_public_balances" \notin StepNames(out.trace))
          /\ (out.state = "posted" =>
                /\ is_ok(out.result)
                /\ Len(out.trace) = Len(ExpectedCalls(key))
                /\ \A i \in DOMAIN out.trace : out.trace[i].ok
                /\ out.event = Some(key.event))
          /\ (out.state = "post_failed" => ~is_ok(out.result) /\ out.event = None)]_vars

C4_Witness ==
    \E j, k \in Keys :
        /\ slots[j].state = "posted"
        /\ {"spend", "register", "update_public_balances"} \subseteq StepNames(slots[j].trace)
        /\ slots[k].state = "posted"
        /\ "spend" \in StepNames(slots[k].trace)
        /\ "update_public_balances" \notin StepNames(slots[k].trace)

\* The nullifiers submission k spent successfully.
SpentBy(k) ==
    {slots[k].trace[i].args[1] :
        i \in {i \in DOMAIN slots[k].trace :
                  slots[k].trace[i].step = "spend" /\ slots[k].trace[i].ok}}

\* The nullifiers submission k called spend with.
CarriedBy(k) ==
    {slots[k].trace[i].args[1] :
        i \in {i \in DOMAIN slots[k].trace : slots[k].trace[i].step = "spend"}}

Done == vpc = "done"

\* The positions of trace t at which step `name` was executed.
At(t, name) == {i \in DOMAIN t : t[i].step = name}

\* Two distinct positions of the sender posts carry related nullifiers.
RelatedNullifiers(posts) ==
    \E i, j \in DOMAIN posts : i # j /\ is_related(posts[i].nullifier, posts[j].nullifier)

\* Two distinct positions of the receiver posts carry related UTXOs.
RelatedUtxos(posts) ==
    \E i, j \in DOMAIN posts : i # j /\ is_related(posts[i].utxo, posts[j].utxo)

\* The (account, amount) pairs in positional order.
PositionalPairs(accounts, values) ==
    [i \in DOMAIN values |-> [account |-> accounts[i], value |-> values[i]]]

\* C6, as stated: InvalidShape, DuplicateSpend and DuplicateMint are returned
\* before any ledger call is made, and the signature errors are checked
\* after the structural checks.
C6_StructuralBeforeLedgerAndSignature ==
    Done =>
        /\ (vout.result.tag \in {"InvalidShape", "DuplicateSpend", "DuplicateMint"} =>
                \A i \in DOMAIN vout.trace : ~vout.trace[i].ledger_call)
        /\ (vout.result.tag = "InvalidAuthorizationSignature" =>
                {"check_shape", "all_unequal(nullifier)", "all_unequal(utxo)"}
                    \subseteq StepNames(vout.trace))

\* C6, amended: a signature error is returned by the first step, before any
\* other check and any ledger call; InvalidShape is returned right after the
\* signature check, before any ledger call; DuplicateSpend and DuplicateMint
\* are returned after check_source_accounts (made iff there are sources) and
\* check_sink_accounts (made iff there are sinks) succeeded, and no sender or
\* receiver post is validated and is_valid is not called before both
\* duplicate checks passed.
C6_SignatureThenShapeThenAccountsThenDuplicates ==
    Done =>
        LET t == vout.trace
            tag == vout.result.tag
            body == vin.post.body
        IN
        /\ (tag = "InvalidAuthorizationSignature" => t = <<SignatureStep(FALSE)>>)
        /\ (tag = "InvalidShape" => t = <<SignatureStep(TRUE), ShapeStep(FALSE)>>)
        /\ (tag \in {"DuplicateSpend", "DuplicateMint"} =>
                /\ t[1] = SignatureStep(TRUE)
                /\ t[2] = ShapeStep(TRUE)
                /\ \A i \in DOMAIN t : t[i].ledger_call =>
                        /\ t[i].step \in {"check_source_accounts", "check_sink_accounts"}
                        /\ t[i].ok
                /\ (At(t, "check_source_accounts") # {} <=> Len(body.sources) > 0)
                /\ (At(t, "check_sink_accounts") # {} <=> Len(body.sinks) > 0)
                /\ t[Len(t)] = IF tag = "DuplicateSpend" THEN SpendStep(FALSE)
                                                          ELSE MintStep(FALSE))
        /\ \A i \in DOMAIN t :
                t[i].step \in {"SenderPost::validate", "ReceiverPost::validate", "is_valid"} =>
                    /\ \E j \in 1..(i - 1) : t[j] = SpendStep(TRUE)
                    /\ \E j \in 1..(i - 1) : t[j] = MintStep(TRUE)

C6_Witness ==
    /\ Done
    /\ vout.result.tag = "DuplicateSpend"
    /\ At(vout.trace, "check_source_accounts") # {}

\* C7: the signature check answers Ok for a present signature that verifies
\* over (body, sink_accounts) of a post with senders, BadSignature for one
\* that does not verify, InvalidShape for a signature on a post without
\* senders, MissingSignature for no signature on a post with senders and Ok
\* for no signature on a post without senders; it is the first step of
\* validate, and when it fails validate makes no ledger call.
C7_SignatureCheck ==
    Done =>
        LET p == vin.post
            present == is_some(p.authorization_signature)
            senders == Len(p.body.sender_posts) > 0
            verifies == verify(unwrap(p.authorization_signature),
                               [body |-> p.body, sink_accounts |-> p.sink_accounts])
            answer == IF vout.result.tag = "InvalidAuthorizationSignature"
                      THEN vout.result.detail[1] ELSE "Ok"
        IN
        /\ answer = (IF present /\ senders THEN (IF verifies THEN "Ok" ELSE "BadSignature")
                     ELSE IF present THEN "InvalidShape"
                     ELSE IF senders THEN "MissingSignature"
                     ELSE "Ok")
        /\ vout.trace[1].step = "has_valid_authorization_signature"
        /\ vout.trace[1].ok = (answer = "Ok")
        /\ (answer # "Ok" =>
                /\ Len(vout.trace) = 1
                /\ \A i \in DOMAIN vout.trace : ~vout.trace[i].ledger_call
                /\ vout.key = None)

C7_Witness ==
    /\ Done
    /\ vout.result = Err("InvalidAuthorizationSignature", <<"BadSignature">>)
    /\ unwrap(vin.post.authorization_signature).message.body = vin.post.body
    /\ Len(vin.post.body.sources) > 0

\* C8: once the signature check passed, validate returns InvalidShape without
\* calling check_source_accounts or check_sink_accounts when the presence of
\* the asset id differs from (sources + sinks > 0) or an account list differs
\* in length from its amounts; otherwise the ledger receives the (account,
\* amount) pairs in positional order and its InvalidSourceAccount or
\* InvalidSinkAccount error is returned as the ledger gave it.
C8_PublicParticipants ==
    Done /\ vout.trace[1].ok =>
        LET body == vin.post.body
            t == vout.trace
            sources == Len(body.sources)
            sinks == Len(body.sinks)
            bad_shape ==
                \/ is_some(body.asset_id) # (sources + sinks > 0)
                \/ Len(vin.source_accounts) # sources
                \/ Len(vin.sink_accounts) # sinks
            src_pairs == PositionalPairs(vin.source_accounts, body.sources)
            snk_pairs == PositionalPairs(vin.sink_accounts, body.sinks)
        IN
        IF bad_shape
        THEN /\ vout.result = Err("InvalidShape", <<>>)
             /\ At(t, "check_source_accounts") = {}
             /\ At(t, "check_sink_accounts") = {}
        ELSE /\ vout.result.tag # "InvalidShape"
             /\ (sources > 0 =>
                    \E i \in DOMAIN t :
                        /\ At(t, "check_source_accounts") = {i}
                        /\ t[i].args = <<unwrap(body.asset_id), src_pairs>>
                        /\ t[i].ok = is_ok(check_source_accounts(ledger, unwrap(body.asset_id), src_pairs).result)
                        /\ (~t[i].ok => vout.result =
                                check_source_accounts(ledger, unwrap(body.asset_id), src_pairs).result))
             /\ (sinks > 0 /\ vout.result.tag # "InvalidSourceAccount" =>
                    \E i \in DOMAIN t :
                        /\ At(t, "check_sink_accounts") = {i}
                        /\ t[i].args = <<unwrap(body.asset_id), snk_pairs>>
                        /\ t[i].ok = is_ok(check_sink_accounts(ledger, unwrap(body.asset_id), snk_pairs).result)
                        /\ (~t[i].ok => vout.result =
                                check_sink_accounts(ledger, unwrap(body.asset_id), snk_pairs).result))
             /\ (vout.result.tag = "InvalidSourceAccount" => sources > 0)
             /\ (vout.result.tag = "InvalidSinkAccount" => sinks > 0)

C8_Witness ==
    /\ Done
    /\ vout.result = Err("InvalidSourceAccount", <<"bob", "X", 2>>)
    /\ vin.source_accounts = <<"alice", "bob">>
    /\ vin.post.body.sources = <<1, 2>>

\* C9, as stated: a post with two sender posts that carry related nullifiers
\* fails validate with DuplicateSpend, and a post with two receiver posts
\* that carry related UTXOs fails validate with DuplicateMint.
C9_DuplicatesAlwaysReported ==
    Done =>
        /\ (RelatedNullifiers(vin.post.body.sender_posts) =>
                vout.result = Err("DuplicateSpend", <<>>))
        /\ (RelatedUtxos(vin.post.body.receiver_posts) =>
                vout.result = Err("DuplicateMint", <<>>))

\* The checks validate makes before the duplicate checks pass on the arguments.
EarlierChecksPass ==
    /\ is_ok(has_valid_authorization_signature(vin.post))
    /\ is_ok(check_public_participants(vin.post.body.asset_id, vin.source_accounts,
                 vin.post.body.sources, vin.sink_accounts, vin.post.body.sinks,
                 UsedLedger).result)

\* C9, amended: a post in which two distinct positions of the sender posts
\* carry related nullifiers, or two distinct positions of the receiver posts
\* carry related UTXOs, fails validate; when the signature check and the
\* public-participant check pass, the error is DuplicateSpend for related
\* nullifiers, and DuplicateMint for related UTXOs without related
\* nullifiers; neither error is returned for a post without such a pair.
C9_DuplicatesReportedAfterEarlierChecks ==
    Done =>
        LET related_spend == RelatedNullifiers(vin.post.body.sender_posts)
            related_mint == RelatedUtxos(vin.post.body.receiver_posts)
        IN
        /\ (related_spend \/ related_mint => ~is_ok(vout.result) /\ vout.key = None)
        /\ (EarlierChecksPass /\ related_spend => vout.result = Err("DuplicateSpend", <<>>))
        /\ (EarlierChecksPass /\ related_mint /\ ~related_spend => vout.result = Err("DuplicateMint", <<>>))
        /\ (vout.result.tag = "DuplicateSpend" => related_spend)
        /\ (vout.result.tag = "DuplicateMint" => related_mint /\ ~related_spend)

C9_Witness ==
    /\ Done
    /\ vout.result = Err("DuplicateSpend", <<>>)
    /\ Len(vin.post.body.sender_posts) = 3
    /\ is_related(vin.post.body.sender_posts[1].nullifier, vin.post.body.sender_posts[3].nullifier)
    /\ \A i, j \in DOMAIN vin.post.body.sender_posts :
            i # j => vin.post.body.sender_posts[i].nullifier # vin.post.body.sender_posts[j].nullifier
    /\ ~is_related(vin.post.body.sender_posts[1].nullifier, vin.post.body.sender_posts[2].nullifier)

\* The key reference validate must hand to is_valid for its arguments.
ExpectedRef ==
    LET p == vin.post IN
    [authorization_key |->
        IF is_some(p.authorization_signature)
        THEN Some(unwrap(p.authorization_signature).authorization_key) ELSE None,
     asset_id |-> p.body.asset_id,
     sources |-> PositionalPairs(vin.source_accounts, p.body.sources),
     senders |-> [i \in DOMAIN p.body.sender_posts |->
                    [utxo_accumulator_output |-> p.body.sender_posts[i].utxo_accumulator_output,
                     nullifier |-> p.body.sender_posts[i].nullifier]],
     receivers |-> [i \in DOMAIN p.body.receiver_posts |->
                    [utxo |-> p.body.receiver_posts[i].utxo]],
     sinks |-> PositionalPairs(vin.sink_accounts, p.body.sinks),
     proof |-> p.body.proof]

\* C10: validate calls is_valid at most once, as its last step, after the
\* signature check, the public-participant check, both duplicate checks and
\* the validation of every sender and receiver post succeeded, with the
\* keys those steps produced, the asset id and the proof of the post; it
\* returns a key exactly when that call answered Ok.
C10_ProofCheckedOnceAndLast ==
    Done =>
        LET t == vout.trace IN
        /\ Cardinality(At(t, "is_valid")) <= 1
        /\ \A i \in At(t, "is_valid") :
            /\ i = Len(t)
            /\ \A j \in 1..(i - 1) : t[j].ok
            /\ {"has_valid_authorization_signature", "check_shape",
                "all_unequal(nullifier)", "all_unequal(utxo)"} \subseteq StepNames(t)
            /\ Count(t, "SenderPost::validate") = Len(vin.post.body.sender_posts)
            /\ Count(t, "ReceiverPost::validate") = Len(vin.post.body.receiver_posts)
            /\ (Len(vin.post.body.sources) > 0 <=> At(t, "check_source_accounts") # {})
            /\ (Len(vin.post.body.sinks) > 0 <=> At(t, "check_sink_accounts") # {})
            /\ t[i].args = <<ExpectedRef>>
        /\ (is_some(vout.key) <=> At(t, "is_valid") # {} /\ t[Len(t)].ok)
        /\ (is_some(vout.key) <=> is_ok(vout.result))

C10_Witness ==
    /\ Done
    /\ is_some(vout.key)
    /\ Len(unwrap(vout.key).sender_posting_keys) = 2
    /\ Len(unwrap(vout.key).receiver_posting_keys) = 2
    /\ Len(unwrap(vout.key).source_posting_keys) = 1

\* The accounts of a sequence of (account, amount) pairs, in order.
AccountsOf(pairs) == [i \in DOMAIN pairs |-> pairs[i].account]

\* C11: whenever validate succeeds on a post with an authorization
\* signature, the sink accounts handed to check_sink_accounts, which are the
\* accounts of the sink posting keys that update_public_balances credits,
\* are the list the verified signature covers.
C11_SignatureBindsSinkAccounts ==
    Done /\ is_ok(vout.result) /\ is_some(vin.post.authorization_signature) =>
        /\ AccountsOf(unwrap(vout.key).sink_posting_keys)
              = unwrap(vin.post.authorization_signature).message.sink_accounts
        /\ \A i \in At(vout.trace, "check_sink_accounts") :
              AccountsOf(vout.trace[i].args[2])
                  = unwrap(vin.post.authorization_signature).message.sink_accounts

\* A post signed for no sink accounts whose validation succeeds with the sink
\* account "alice" handed to the ledger.
C11_UnsignedSinkAccepted ==
    /\ Done
    /\ is_ok(vout.result)
    /\ is_some(vin.post.authorization_signature)
    /\ unwrap(vin.post.authorization_signature).message.sink_accounts = <<>>
    /\ vin.post.sink_accounts = <<>>
    /\ vin.sink_accounts = <<"alice">>
    /\ AccountsOf(unwrap(vout.key).sink_posting_keys) = <<"alice">>

(***************************************************************************)
(* Properties of one TransferPost::post call (SpecPost).                   *)
(***************************************************************************)
\* The names of the mutating ledger calls.
MutatingSteps == {"spend", "register", "update_public_balances"}

\* The errors validate returns.
ValidationErrors ==
    {"InvalidAuthorizationSignature", "InvalidShape", "InvalidSourceAccount",
     "InvalidSinkAccount", "DuplicateSpend", "DuplicateMint", "Sender", "Receiver",
     "InvalidProof"}

\* C12: TransferPost::post returns the validation error and leaves the
\* ledger as it was, without a mutating call, when validate fails; when
\* validate succeeds and a mutating call reports an error, that error is
\* returned wrapped as UnexpectedError and no event is returned; otherwise
\* the result is Ok with the ledger event of the validation.
C12_PostValidatesThenPosts ==
    Done =>
        LET t == vout.trace
            v == [i \in 1..Cardinality({j \in DOMAIN t : t[j].step \notin MutatingSteps})
                    |-> t[i]]
            failed == {i \in DOMAIN t : t[i].step \in MutatingSteps /\ ~t[i].ok}
        IN
        /\ vout.result.tag \in ValidationErrors \cup {"UnexpectedError", "Ok"}
        /\ \A i \in DOMAIN v : v[i].step \notin MutatingSteps
        /\ (\E i \in DOMAIN v : ~v[i].ok) =>
                /\ vout.result.tag \in ValidationErrors
                /\ ~v[Len(v)].ok
                /\ t = v
                /\ ledger = UsedLedger
                /\ vout.event = None
        /\ (vout.result.tag \in ValidationErrors) =>
                /\ (\E i \in DOMAIN v : ~v[i].ok)
                /\ ledger = UsedLedger
        /\ (\A i \in DOMAIN v : v[i].ok) /\ failed # {} =>
                /\ failed = {Len(t)}
                /\ vout.result = Err("UnexpectedError",
                       <<Err("LedgerError", <<t[Len(t)].step>>)>>)
                /\ vout.event = None
        /\ (\A i \in DOMAIN t : t[i].ok) =>
                /\ vout.result = Ok
                /\ v[Len(v)].step = "is_valid"
                /\ vout.event = Some([asset_id |-> vin.post.body.asset_id,
                                      sources |-> PositionalPairs(vin.source_accounts,
                                                      vin.post.body.sources),
                                      sinks |-> PositionalPairs(vin.sink_accounts,
                                                      vin.post.body.sinks)])
        /\ (vout.result.tag = "UnexpectedError" => failed # {})
        /\ (vout.result = Ok => failed = {} /\ \A i \in DOMAIN v : v[i].ok)

C12_Witness ==
    /\ Done
    /\ vout.result = Err("UnexpectedError", <<Err("LedgerError", <<"update_public_balances">>)>>)
    /\ Count(vout.trace, "spend") > 0

(***************************************************************************)
(* Properties of the Transfer builder (SpecTransfer).                      *)
(***************************************************************************)
\* Transfer::new has returned or panicked.
NewCalled == tx.pc \notin {"unused", "args"}

ArgsShape == ShapeOf(tx.args.sources, tx.args.senders, tx.args.receivers, tx.args.sinks)

\* C14: Transfer::new with SOURCES = SENDERS = 0 or with RECEIVERS = SINKS = 0
\* panics and returns no Transfer, whatever the other arguments are.
C14_EmptySidePanics ==
    NewCalled /\ (\/ ArgsShape.SOURCES + ArgsShape.SENDERS = 0
                  \/ ArgsShape.RECEIVERS + ArgsShape.SINKS = 0) =>
        /\ tx.pc = "panicked"
        /\ tx.transfer = None
        /\ tx.panic = IF ArgsShape.SOURCES + ArgsShape.SENDERS = 0
                      THEN Some("Not enough participants on the input side.")
                      ELSE Some("Not enough participants on the output side.")

C14_Witness ==
    /\ NewCalled
    /\ tx.pc = "panicked"
    /\ ArgsShape.RECEIVERS + ArgsShape.SINKS = 0
    /\ ArgsShape.SENDERS > 0
    /\ ArgsShape.SOURCES = 0
    /\ is_some(tx.args.authorization)
    /\ ~is_some(tx.args.asset_id)

\* C15: Transfer::new panics when an authorization is missing with
\* SENDERS > 0 or given with SENDERS = 0, and when a public asset id is
\* missing with SOURCES + SINKS > 0 or given with SOURCES + SINKS = 0; every
\* Transfer it returns has authorization.is_some() <=> SENDERS > 0 and
\* asset_id.is_some() <=> SOURCES + SINKS > 0 and stores the six arguments
\* unchanged; with both sides non-empty it panics in no other case.
C15_ShapeInvariantOfNew ==
    NewCalled =>
        LET S == ArgsShape
            bad_authorization == is_some(tx.args.authorization) # (S.SENDERS > 0)
            bad_asset_id == is_some(tx.args.asset_id) # (S.SOURCES + S.SINKS > 0)
            empty_side == S.SOURCES + S.SENDERS = 0 \/ S.RECEIVERS + S.SINKS = 0
        IN
        /\ (bad_authorization \/ bad_asset_id => tx.pc = "panicked" /\ tx.transfer = None)
        /\ (~empty_side /\ bad_authorization =>
                tx.panic = IF S.SENDERS > 0
                           THEN Some("Missing authorization when required.")
                           ELSE Some("Given authorization when not required."))
        /\ (~empty_side /\ ~bad_authorization /\ bad_asset_id =>
                tx.panic = IF S.SOURCES + S.SINKS > 0
                           THEN Some("Missing public asset id when required.")
                           ELSE Some("Given public asset id when not required."))
        /\ (~empty_side /\ ~bad_authorization /\ ~bad_asset_id => tx.pc # "panicked")
        /\ (tx.pc # "panicked" =>
                /\ tx.panic = None
                /\ is_some(tx.transfer)
                /\ is_some(unwrap(tx.transfer).authorization)
                      <=> Len(unwrap(tx.transfer).senders) > 0
                /\ is_some(unwrap(tx.transfer).asset_id)
                      <=> Len(unwrap(tx.transfer).sources)
                            + Len(unwrap(tx.transfer).sinks) > 0
                /\ Len(unwrap(tx.transfer).sources) + Len(unwrap(tx.transfer).senders) > 0
                /\ Len(unwrap(tx.transfer).receivers) + Len(unwrap(tx.transfer).sinks) > 0
                /\ unwrap(tx.transfer).authorization = tx.args.authorization
                /\ unwrap(tx.transfer).asset_id = tx.args.asset_id
                /\ unwrap(tx.transfer).sources = tx.args.sources
                /\ unwrap(tx.transfer).senders = tx.args.senders
                /\ unwrap(tx.transfer).receivers = tx.args.receivers
                /\ unwrap(tx.transfer).sinks = tx.args.sinks)

C15_Witness ==
    /\ NewCalled
    /\ tx.pc = "built"
    /\ Len(unwrap(tx.transfer).senders) = 2
    /\ Len(unwrap(tx.transfer).sinks) = 1
    /\ Len(unwrap(tx.transfer).sources) = 0
    /\ unwrap(tx.transfer).asset_id = Some("Y")

\* C13: into_post returns Ok(Some(post)) only for (requires authorization,
\* authorization present, spending key supplied) = (true, true, Some) or
\* (false, false, None); in the first case a succeeding prover gives
\* Ok(Some(post)) with a signature over (body, sink_accounts) when the
\* authorization belongs to the spending key and Ok(None) when it does not;
\* in the second a succeeding prover gives Ok(Some(post)) without signature;
\* a failing prover gives its error in these two cases; every other
\* combination gives Ok(None).
C13_IntoPostDispatch ==
    tx.pc \in {"posted", "done"} /\ tx.call.op = "into_post" =>
        LET t == unwrap(tx.transfer)
            required == Len(t.senders) > 0
            has_authorization == is_some(t.authorization)
            has_key == is_some(tx.call.spending_key)
            proved == tx.call.prover = "ok"
            post == unwrap(tx.call.post)
            signature == unwrap(post.authorization_signature)
            signing == required /\ has_authorization /\ has_key
            plain == ~required /\ ~has_authorization /\ ~has_key
        IN
        /\ is_some(tx.call.post) =>
                /\ tx.call.result = Ok
                /\ signing \/ plain
                /\ post.body.asset_id = t.asset_id
                /\ post.body.sources = t.sources
                /\ post.body.sinks = t.sinks
                /\ Len(post.body.sender_posts) = Len(t.senders)
                /\ Len(post.body.receiver_posts) = Len(t.receivers)
        /\ signing /\ proved =>
                /\ tx.call.result = Ok
                /\ is_some(tx.call.post)
                      <=> unwrap(t.authorization).spending_key = unwrap(tx.call.spending_key)
                /\ is_some(tx.call.post) =>
                      /\ is_some(post.authorization_signature)
                      /\ signature.authorization_key = unwrap(t.authorization).authorization_key
                      /\ verify(signature, [body |-> post.body,
                                            sink_accounts |-> tx.call.sink_accounts])
        /\ plain /\ proved =>
                /\ tx.call.result = Ok
                /\ is_some(tx.call.post)
                /\ post.authorization_signature = None
        /\ (signing \/ plain) /\ ~proved =>
                /\ tx.call.result = Err("ProofSystemError", <<>>)
                /\ tx.call.post = None
        /\ ~signing /\ ~plain =>
                /\ tx.call.result = Ok
                /\ tx.call.post = None

C13_Witness ==
    /\ tx.pc = "posted"
    /\ tx.call.op = "into_post"
    /\ is_some(unwrap(tx.call.post).authorization_signature)
    /\ Len(unwrap(tx.transfer).senders) = 2
    /\ Len(unwrap(tx.transfer).sinks) = 1
    /\ unwrap(tx.call.post).sink_accounts = <<"bob">>

(***************************************************************************)
(* The public input of the proof.                                          *)
(***************************************************************************)
\* Number of elements an optional value contributes to the input.
Contributes(option) == IF is_some(option) THEN 1 ELSE 0

\* The input holds, from position offset + 1 on, the values in index order.
HoldsAt(input, offset, kind, values) ==
    \A i \in DOMAIN values :
        /\ input[offset + i].kind = kind
        /\ input[offset + i].value = values[i]

\* C16: Transfer::generate_proof_input folds, in this order and nothing
\* else, the authorization key if an authorization is present, the asset id
\* if present, every source in index order, every sender, every receiver and
\* every sink; for the shape (1, 0, 1, 0) the input begins with the asset id
\* followed by the source value.
C16_ProofInputOrder ==
    tx.call.op = "generate_proof_input" =>
        LET t == unwrap(tx.transfer)
            input == tx.call.input
            a == Contributes(t.authorization)
            b == a + Contributes(t.asset_id)
            c == b + Len(t.sources)
            d == c + Len(t.senders)
            e == d + Len(t.receivers)
        IN /\ Len(input) = e + Len(t.sinks)
           /\ is_some(t.authorization) =>
                input[1] = Element("authorization_key",
                                   unwrap(t.authorization).authorization_key)
           /\ is_some(t.asset_id) => input[a + 1] = Element("asset_id", unwrap(t.asset_id))
           /\ HoldsAt(input, b, "source", t.sources)
           /\ HoldsAt(input, c, "sender",
                      [i \in DOMAIN t.senders |-> Sender_into_post(t.senders[i])])
           /\ HoldsAt(input, d, "receiver",
                      [i \in DOMAIN t.receivers |-> Receiver_into_post(t.receivers[i])])
           /\ HoldsAt(input, e, "sink", t.sinks)
           /\ ShapeOf(t.sources, t.senders, t.receivers, t.sinks)
                = [SOURCES |-> 1, SENDERS |-> 0, RECEIVERS |-> 1, SINKS |-> 0]
              => /\ input[1] = Element("asset_id", unwrap(t.asset_id))
                 /\ input[2] = Element("source", t.sources[1])

\* The proof input of a transfer with an authorization, a public asset id
\* and all four kinds of participants has been generated.
C16_Witness ==
    /\ tx.call.op = "generate_proof_input"
    /\ is_some(unwrap(tx.transfer).authorization)
    /\ is_some(unwrap(tx.transfer).asset_id)
    /\ Len(unwrap(tx.transfer).sources) > 0
    /\ Len(unwrap(tx.transfer).senders) > 0
    /\ Len(unwrap(tx.transfer).receivers) > 0
    /\ Len(unwrap(tx.transfer).sinks) > 0
    /\ Len(tx.call.input) >= 6

\* The kinds of the elements of an input, in order.
Kinds(input) == [i \in DOMAIN input |-> input[i].kind]

\* n elements of one kind.
Repeated(kind, n) == [i \in 1..n |-> kind]

\* The kinds a transfer folds: the authorization key iff it has senders, the
\* asset id iff present, then sources, senders, receivers and sinks.
ExpectedKinds(t) ==
    (IF Len(t.senders) > 0 THEN <<"authorization_key">> ELSE <<>>)
    \o (IF is_some(t.asset_id) THEN <<"asset_id">> ELSE <<>>)
    \o Repeated("source", Len(t.sources))
    \o Repeated("sender", Len(t.senders))
    \o Repeated("receiver", Len(t.receivers))
    \o Repeated("sink", Len(t.sinks))

\* C17: for a Transfer t and the TransferPost p that into_post builds from
\* it, generate_proof_input on t, on p and on the key reference validate
\* builds for p give inputs with the same element kinds in the same order
\* and with the same counts: authorization key iff senders > 0, asset id iff
\* present, sources, senders, receivers, sinks.
C17_SameFoldingOrder ==
    /\ tx.pc \in {"post_input", "validated"} =>
         /\ Kinds(tx.call.post_input) = ExpectedKinds(unwrap(tx.transfer))
         /\ Kinds(Transfer_generate_proof_input(unwrap(tx.transfer)))
              = Kinds(tx.call.post_input)
    /\ (tx.pc = "validated" /\ is_some(tx.call.key_input)) =>
         Kinds(unwrap(tx.call.key_input)) = Kinds(tx.call.post_input)

\* validate has built the key reference of a signed post with an asset id
\* and all four kinds of participants.
C17_Witness ==
    /\ tx.pc = "validated"
    /\ is_some(tx.call.key_input)
    /\ Kinds(unwrap(tx.call.key_input))
         = <<"authorization_key", "asset_id", "source", "sender", "receiver", "sink">>

(***************************************************************************)
(* The constraints of the validity proof.                                  *)
(***************************************************************************)
RECURSIVE Total(_)
\* The sum of a sequence of values, zero when empty.
Total(values) ==
    IF values = <<>> THEN 0 ELSE values[1] + Total(Tail(values))

\* The sum of all input asset values and of all output asset values.
InputTotal(t) ==
    Total([i \in DOMAIN t.senders |-> t.senders[i].asset.value]) + Total(t.sources)

OutputTotal(t) ==
    Total([i \in DOMAIN t.receivers |-> t.receivers[i].asset.value]) + Total(t.sinks)

\* Every sender and receiver holds the same asset id, the public one if any.
ConsistentAssetIds(t) ==
    LET ids == {t.senders[i].asset.id : i \in DOMAIN t.senders}
                 \cup {t.receivers[i].asset.id : i \in DOMAIN t.receivers}
                 \cup Range(t.asset_id)
    IN Cardinality(ids) <= 1

\* The values one value is changed to.
ChangedValues == 0..3

\* The transfers that differ from t in exactly one value.
Perturbations(t) ==
    (UNION {{[t EXCEPT !.sources[i] = v] :
                 i \in DOMAIN t.sources, v \in ChangedValues},
            {[t EXCEPT !.senders[i].asset.value = v] :
                 i \in DOMAIN t.senders, v \in ChangedValues},
            {[t EXCEPT !.receivers[i].asset.value = v] :
                 i \in DOMAIN t.receivers, v \in ChangedValues},
            {[t EXCEPT !.sinks[i] = v] :
                 i \in DOMAIN t.sinks, v \in ChangedValues}}) \ {t}

\* C18: for a Transfer of well-formed participants of one asset id, the
\* constraints built by known_constraints are satisfied if and only if the
\* sum of the sender values and the sources equals the sum of the receiver
\* values and the sinks; when they are satisfied, changing any single value
\* by a nonzero amount gives constraints that are not.
C18_BalanceConservation ==
    (tx.call.op = "known_constraints" /\ ConsistentAssetIds(unwrap(tx.transfer))) =>
        LET t == unwrap(tx.transfer) IN
        /\ is_satisfied(tx.call.compiler) <=> (InputTotal(t) = OutputTotal(t))
        /\ is_satisfied(tx.call.compiler) =>
             \A changed \in Perturbations(t) : ~is_satisfied(known_constraints(changed))

\* The constraints of a balanced transfer with senders and sources on the
\* input side have been built and are satisfied.
C18_Witness ==
    /\ tx.call.op = "known_constraints"
    /\ ConsistentAssetIds(unwrap(tx.transfer))
    /\ is_satisfied(tx.call.compiler)
    /\ Len(unwrap(tx.transfer).senders) > 0
    /\ Len(unwrap(tx.transfer).sources) > 0
    /\ Perturbations(unwrap(tx.transfer)) # {}

\* The constraints of an unbalanced transfer of one asset id have been built
\* and are not satisfied.
C18_UnbalancedReached ==
    /\ tx.call.op = "known_constraints"
    /\ ConsistentAssetIds(unwrap(tx.transfer))
    /\ ~is_satisfied(tx.call.compiler)

\* The secret asset ids of every sender in order, then of every receiver.
SecretAssetIds(t) ==
    [i \in DOMAIN t.senders |-> t.senders[i].asset.id]
    \o [i \in DOMAIN t.receivers |-> t.receivers[i].asset.id]

\* The positions of the asset-id assertions in a compiler.
AssetIdAssertions(compiler) ==
    {i \in DOMAIN compiler : compiler[i].kind \in {"assert_all_eq_to_base", "assert_all_eq"}}

\* C19: build_validity_constraints asserts asset-id consistency over the
\* secret asset ids of every sender in order and then of every receiver:
\* equal to the public asset id when one exists, equal to each other when
\* none exists; no sender or receiver asset id is left out, so satisfied
\* constraints mean one asset id throughout.
C19_AssetIdConsistency ==
    tx.call.op = "known_constraints" =>
        LET t == unwrap(tx.transfer)
            compiler == tx.call.compiler
            last == compiler[Len(compiler)]
        IN /\ AssetIdAssertions(compiler) = {Len(compiler)}
           /\ is_some(t.asset_id) =>
                /\ last.kind = "assert_all_eq_to_base"
                /\ last.terms = <<unwrap(t.asset_id)>> \o SecretAssetIds(t)
           /\ ~is_some(t.asset_id) =>
                /\ last.kind = "assert_all_eq"
                /\ last.terms = SecretAssetIds(t)
           /\ Len(SecretAssetIds(t)) = Len(t.senders) + Len(t.receivers)
           /\ is_satisfied(compiler) => ConsistentAssetIds(t)

\* The constraints of a transfer with a public asset id, senders and
\* receivers have been built, one receiver holding another asset id.
C19_Witness ==
    /\ tx.call.op = "known_constraints"
    /\ is_some(unwrap(tx.transfer).asset_id)
    /\ Len(unwrap(tx.transfer).senders) > 0
    /\ Len(unwrap(tx.transfer).receivers) > 0
    /\ ~ConsistentAssetIds(unwrap(tx.transfer))
    /\ ~is_satisfied(tx.call.compiler)

\* The constraints of a transfer without public asset id have been built.
C19_PairwiseReached ==
    /\ tx.call.op = "known_constraints"
    /\ ~is_some(unwrap(tx.transfer).asset_id)
    /\ Len(SecretAssetIds(unwrap(tx.transfer))) > 1

(***************************************************************************)
(* The canonical encodings.                                                *)
(***************************************************************************)
BodyOrder == <<"asset_id", "sources", "sender_posts", "receiver_posts", "sinks", "proof">>

\* The fields an encoding writes, in order, with the values it writes.
ExpectedEncoding ==
    LET post == vin.post
        body == [i \in DOMAIN BodyOrder |-> [field |-> BodyOrder[i],
                                             value |-> post.body[BodyOrder[i]]]]
    IN IF tx.call.op = "TransferPostBody::encode" THEN body
       ELSE IF tx.call.op = "TransferPost::encode"
       THEN <<[field |-> "authorization_signature",
               value |-> post.authorization_signature]>> \o body
       ELSE body \o <<[field |-> "sink_accounts", value |-> post.sink_accounts]>>

EncodeCalled ==
    tx.call.op \in {"TransferPostBody::encode", "TransferPost::encode",
                    "BodyWithAccountsRef::encode"}

\* C20: TransferPostBody writes asset_id, sources, sender_posts,
\* receiver_posts, sinks, proof; TransferPost writes authorization_signature
\* and then the body, never sink_accounts; the signed payload writes the body
\* and then sink_accounts.  A write error stops the encoding, nothing being
\* written after it, and is returned.
C20_EncodingOrder ==
    EncodeCalled =>
        LET w == tx.call.writer
            expected == ExpectedEncoding
        IN IF tx.call.capacity >= Len(expected)
           THEN /\ is_ok(w.result)
                /\ w.written = expected
           ELSE /\ w.result = Err("WriteError", <<>>)
                /\ w.written = SubSeq(expected, 1, tx.call.capacity)

\* A signed post with sink accounts has been encoded in full.
C20_Witness ==
    /\ tx.call.op = "TransferPost::encode"
    /\ is_ok(tx.call.writer.result)
    /\ Len(tx.call.writer.written) = 7
    /\ is_some(vin.post.authorization_signature)
    /\ vin.post.sink_accounts # <<>>
    /\ \A i \in DOMAIN tx.call.writer.written :
           tx.call.writer.written[i].field # "sink_accounts"

\* An encoding of the signed payload has stopped at a write error inside the body.
C20_ErrorReached ==
    /\ tx.call.op = "BodyWithAccountsRef::encode"
    /\ ~is_ok(tx.call.writer.result)
    /\ Len(tx.call.writer.written) = 3

(***************************************************************************)
(* Identity verification.                                                  *)
(***************************************************************************)
IdentityPostChecked == idv.proof.transfer_post

\* The five conditions of identity_verification, stated on the data.
ToPublicShape ==
    LET body == IdentityPostChecked.body
    IN /\ is_some(body.asset_id)
       /\ body.sources = <<>>
       /\ Len(body.sender_posts) > 0
       /\ Len(body.sinks) = 1

OnlySinkIsPublicAccount == IdentityPostChecked.sink_accounts = <<idv.public_account>>

SignatureValid ==
    LET post == IdentityPostChecked
    IN IF Len(post.body.sender_posts) > 0
       THEN /\ post.authorization_signature # None
            /\ post.authorization_signature[1].message
                 = [body |-> post.body, sink_accounts |-> post.sink_accounts]
       ELSE post.authorization_signature = None

ProofVerifies ==
    /\ idv.verifying_context = "matching"
    /\ IdentityPostChecked.body.proof = "valid_proof"

SomeSenderSpendsVirtualAsset ==
    \E i \in DOMAIN IdentityPostChecked.body.sender_posts :
        IdentityPostChecked.body.sender_posts[i]
            = VirtualSenderPost(idv.virtual_asset, idv.address)

\* C21: identity_verification returns Ok only if all five checks hold, and
\* otherwise the variant of the first failing check in the order shape
\* (InvalidShape), sink accounts (InvalidSinkAccount), signature
\* (InvalidSignature), proof (InvalidProof), accumulator output
\* (InconsistentUtxoAccumulatorOutput); InvalidVirtualAsset is never returned.
C21_FirstFailingCheck ==
    idv.pc = "done" =>
        /\ idv.out.result.tag =
              IF ~ToPublicShape THEN "InvalidShape"
              ELSE IF ~OnlySinkIsPublicAccount THEN "InvalidSinkAccount"
              ELSE IF ~SignatureValid THEN "InvalidSignature"
              ELSE IF ~ProofVerifies THEN "InvalidProof"
              ELSE IF ~SomeSenderSpendsVirtualAsset
              THEN "InconsistentUtxoAccumulatorOutput"
              ELSE "Ok"
        /\ idv.out.result.tag # "InvalidVirtualAsset"
        /\ is_ok(idv.out.result) <=>
             (ToPublicShape /\ OnlySinkIsPublicAccount /\ SignatureValid
              /\ ProofVerifies /\ SomeSenderSpendsVirtualAsset)

\* A ToPublic post failing the sink-account, signature, proof and output
\* checks at once has been rejected for its sink accounts.
C21_Witness ==
    /\ idv.pc = "done"
    /\ idv.out.result = Err("InvalidSinkAccount", <<>>)
    /\ ToPublicShape
    /\ ~SignatureValid
    /\ ~ProofVerifies
    /\ ~SomeSenderSpendsVirtualAsset

\* A proof of each outcome has been verified.
C21_ProofFailureReached ==
    /\ idv.pc = "done"
    /\ idv.out.result = Err("InvalidProof", <<>>)
    /\ idv.verifying_context = "failing"

PassesFirstFourChecks ==
    ToPublicShape /\ OnlySinkIsPublicAccount /\ SignatureValid /\ ProofVerifies

\* C22: for a post that passes the shape, sink-account, signature and proof
\* checks, identity_verification returns Ok when a sender post used the
\* accumulator output of the claimed virtual asset and address, and
\* InconsistentUtxoAccumulatorOutput when every sender post used that of
\* another address or another asset value.
C22_AccumulatorOutputCheck ==
    (idv.pc = "done" /\ PassesFirstFourChecks) =>
        LET posts == IdentityPostChecked.body.sender_posts IN
        /\ SomeSenderSpendsVirtualAsset => is_ok(idv.out.result)
        /\ (\A i \in DOMAIN posts :
              \E a \in VirtualAssets, address \in Addresses :
                 /\ a # idv.virtual_asset \/ address # idv.address
                 /\ posts[i] = VirtualSenderPost(a, address))
             => idv.out.result = Err("InconsistentUtxoAccumulatorOutput", <<>>)

\* A proof whose second sender post spends the claimed virtual asset, the
\* first one spending another, has been accepted.
C22_Witness ==
    /\ idv.pc = "done"
    /\ PassesFirstFourChecks
    /\ is_ok(idv.out.result)
    /\ Len(IdentityPostChecked.body.sender_posts) = 2
    /\ IdentityPostChecked.body.sender_posts[1]
         # VirtualSenderPost(idv.virtual_asset, idv.address)

\* A proof for another address has been rejected at the fifth check.
C22_SubstitutedReached ==
    /\ idv.pc = "done"
    /\ PassesFirstFourChecks
    /\ idv.out.result = Err("InconsistentUtxoAccumulatorOutput", <<>>)
    /\ idv.address = "address2"

(***************************************************************************)
(* The source and sink accessors.                                          *)
(***************************************************************************)
\* The value an accessor was called on: the Transfer or the body of the post.
Accessed ==
    IF tx.call.op \in {"Transfer::source", "Transfer::sink"}
    THEN unwrap(tx.transfer) ELSE vin.post.body

\* The amounts the accessor called indexes.
AccessedAmounts ==
    IF tx.call.op \in {"Transfer::source", "TransferPostBody::source",
                       "TransferPost::source"}
    THEN Accessed.sources ELSE Accessed.sinks

AccessorCalled ==
    tx.call.op \in {"Transfer::source", "Transfer::sink", "TransferPostBody::source",
                    "TransferPostBody::sink", "TransferPost::source",
                    "TransferPost::sink"}

AccessorStep == Source \/ Sink \/ BodySource \/ BodySink \/ PostSource \/ PostSink

\* C23: source(k) and sink(k) on a Transfer, a TransferPostBody and a
\* TransferPost return Some(Asset(asset_id, amount_k)) exactly when a public
\* asset id exists and k is an index of the sources (of the sinks), and None
\* otherwise; they change neither the transfer nor the post.
C23_SourceAndSink ==
    /\ [](AccessorCalled =>
            IF Accessed.asset_id # None /\ tx.call.k < Len(AccessedAmounts)
            THEN tx.call.asset
                   = <<[id |-> Accessed.asset_id[1],
                        value |-> AccessedAmounts[tx.call.k + 1]]>>
            ELSE tx.call.asset = None)
    /\ [][AccessorStep => (tx'.transfer = tx.transfer /\ vin' = vin)]_vars

\* The second source of a Transfer has been returned as an asset.
C23_Witness ==
    /\ tx.call.op = "Transfer::source"
    /\ tx.call.k = 1
    /\ tx.call.asset # None

\* A post with a source and no public asset id has been asked for its source.
C23_NoAssetIdReached ==
    /\ tx.call.op = "TransferPost::source"
    /\ tx.call.k = 0
    /\ Len(vin.post.body.sources) > 0
    /\ tx.call.asset = None

\* An accessor has been asked for an index past the end.
C23_OutOfRangeReached ==
    /\ tx.call.op = "Transfer::sink"
    /\ Len(unwrap(tx.transfer).sinks) > 0
    /\ tx.call.k = Len(unwrap(tx.transfer).sinks)
    /\ tx.call.asset = None

(***************************************************************************)
(* Linear algebra.                                                         *)
(***************************************************************************)
RECURSIVE SumOver(_, _)
\* The sum in the field of the terms f[k] for k in 1..n.
SumOver(f, n) == IF n = 0 THEN 0 ELSE (SumOver(f, n - 1) + f[n]) % FieldOrder

\* The product of two matrices whose inner dimensions agree.
Product(a, b) ==
    [i \in 1..Len(a) |->
        [j \in 1..Len(b[1]) |->
            SumOver([k \in 1..Len(b) |-> a[i][k] * b[k][j]], Len(b))]]

\* C25: matmul returns Some(P) with P[i][j] the sum over k of
\* self[i][k] * other[k][j] exactly when the number of columns of self equals
\* the number of rows of other, and None otherwise.
C25_MatmulDefined ==
    (mx.op = "matmul" /\ mx.pc = "done") =>
        IF Len(mx.args.self[1]) = Len(mx.args.other)
        THEN mx.out = Some(Product(mx.args.self, mx.args.other))
        ELSE mx.out = None

\* A defined product of a 1 x 2 and a 2 x 2 matrix has been refused.
C25_DefinedProductRefused ==
    /\ mx.op = "matmul"
    /\ mx.pc = "done"
    /\ Len(mx.args.self) = 1
    /\ Len(mx.args.self[1]) = 2
    /\ Len(mx.args.other) = 2
    /\ Len(mx.args.other[1]) = 2
    /\ mx.out = None

\* An undefined product of a 2 x 1 and a 2 x 2 matrix has been returned.
C25_UndefinedProductReturned ==
    /\ mx.op = "matmul"
    /\ mx.pc = "done"
    /\ Len(mx.args.self) = 2
    /\ Len(mx.args.self[1]) = 1
    /\ Len(mx.args.other) = 2
    /\ mx.out # None

\* Square matrices of one size are multiplied as the product says.
C25_SquareProduct ==
    (mx.op = "matmul" /\ mx.pc = "done"
        /\ Len(mx.args.self) = Len(mx.args.self[1])
        /\ Len(mx.args.other) = Len(mx.args.other[1])
        /\ Len(mx.args.self) = Len(mx.args.other)) =>
        mx.out = Some(Product(mx.args.self, mx.args.other))

EliminateCalled == mx.op = "eliminate" /\ mx.pc = "done"

\* The rows of the matrix eliminated that can be the pivot: non-zero in the
\* column, zero in every column before it.
PivotRows ==
    {i \in 1..Len(mx.args.self) :
        /\ mx.args.self[i][mx.args.column + 1] # 0
        /\ \A j \in 1..mx.args.column : mx.args.self[i][j] = 0}

\* C28: eliminate(column, shadow) returns None exactly when no row is
\* non-zero in `column` with zeros in the columns before it; otherwise the
\* first such row is the pivot and the first row of the result, every other
\* row of the result is zero in `column`, and the shadow has received the
\* same row subtractions and the same move of the pivot row to the front.
C28_Eliminate ==
    EliminateCalled =>
        LET self == mx.args.self
            column == mx.args.column + 1
            out == mx.out
        IN /\ ~out.panic
           /\ out.result = None <=> PivotRows = {}
           /\ out.result = None => out.shadow = mx.args.shadow
           /\ out.result # None =>
                LET result == out.result[1]
                    pivot_index == CHOOSE i \in PivotRows : \A k \in PivotRows : i <= k
                IN /\ Len(result) = Len(self)
                   /\ result[1] = self[pivot_index]
                   /\ \A i \in 2..Len(result) : result[i][column] = 0
                   /\ Cardinality({i \in 1..Len(result) : result[i][column] # 0}) = 1
                   /\ mx.args.shadow = self => out.shadow = result
                   /\ mx.args.shadow = identity(Len(self)) =>
                        Product(out.shadow, self) = result

\* A matrix whose first row is zero in the column has been eliminated with a
\* later row as the pivot and a row subtraction.
C28_Witness ==
    /\ EliminateCalled
    /\ mx.out.result # None
    /\ 1 \notin PivotRows
    /\ Cardinality({i \in 1..Len(mx.args.self) :
                       mx.args.self[i][mx.args.column + 1] # 0}) > 1
    /\ mx.args.shadow = identity(Len(mx.args.self))

\* A later column of a matrix whose first column has no zero has been refused.
C28_LaterColumnRefused ==
    /\ EliminateCalled
    /\ mx.args.column > 0
    /\ \A i \in 1..Len(mx.args.self) : mx.args.self[i][1] # 0
    /\ mx.out.result = None

RECURSIVE Determinant(_)
\* The determinant, expanded along the first row.
Determinant(m) ==
    IF Len(m) = 1 THEN m[1][1]
    ELSE SumOver([j \in 1..Len(m) |->
                    (m[1][j] * Determinant([i \in 1..(Len(m) - 1) |->
                                               Without(m[i + 1], j)])
                       * (IF j % 2 = 1 THEN 1 ELSE FieldOrder - 1)) % FieldOrder],
                 Len(m))

\* C24: invert returns Some(inv) exactly when the matrix is invertible and
\* None when it is singular; then self * inv and inv * self are the
\* identity; is_invertible equals invert().is_some(); so too when a zero on
\* the diagonal calls for a row swap.
C24_Invert ==
    /\ (mx.op = "invert" /\ mx.pc = "done") =>
          /\ mx.out # None <=> Determinant(mx.args.self) # 0
          /\ mx.out # None =>
                /\ Product(mx.args.self, mx.out[1]) = identity(Len(mx.args.self))
                /\ Product(mx.out[1], mx.args.self) = identity(Len(mx.args.self))
                /\ matmul(mx.args.self, mx.out[1]) = Some(identity(Len(mx.args.self)))
                /\ matmul(mx.out[1], mx.args.self) = Some(identity(Len(mx.args.self)))
    /\ (mx.op = "is_invertible" /\ mx.pc = "done") =>
          mx.out = (invert(mx.args.self) # None)

\* An invertible 3 x 3 matrix with a zero at the head of its diagonal has
\* been inverted.
C24_Witness ==
    /\ mx.op = "invert"
    /\ mx.pc = "done"
    /\ Len(mx.args.self) = 3
    /\ mx.args.self[1][1] = 0
    /\ mx.out # None

\* The swap matrix [[0, 1], [1, 0]] has been inverted.
C24_SwapInverted ==
    /\ mx.op = "invert"
    /\ mx.pc = "done"
    /\ mx.args.self = <<(<<0, 1>>), (<<1, 0>>)>>
    /\ mx.out = Some(<<(<<0, 1>>), (<<1, 0>>)>>)

\* A singular matrix has been refused.
C24_SingularRefused ==
    /\ mx.op = "invert"
    /\ mx.pc = "done"
    /\ Len(mx.args.self) = 3
    /\ mx.out = None

\* C29: minor(i, j) on an n x n matrix returns None when n <= 1, and for
\* n >= 2 and i, j < n the (n-1) x (n-1) matrix left by deleting row i and
\* column j, the remaining entries keeping their relative order; the matrix
\* itself is unchanged.
C29_Minor ==
    /\ [](mx.op = "minor" /\ mx.pc = "done" =>
            LET self == mx.args.self
                n == Len(self)
                i == mx.args.i + 1
                j == mx.args.j + 1
            IN IF n <= 1 THEN mx.out = [panic |-> FALSE, value |-> None]
               ELSE /\ ~mx.out.panic
                    /\ mx.out.value # None
                    /\ LET result == mx.out.value[1]
                       IN /\ Len(result) = n - 1
                          /\ \A a \in 1..(n - 1) :
                                /\ Len(result[a]) = n - 1
                                /\ \A b \in 1..(n - 1) :
                                      result[a][b]
                                        = self[IF a < i THEN a ELSE a + 1]
                                              [IF b < j THEN b ELSE b + 1])
    /\ [][Minor => mx'.args.self = mx.args.self]_vars

\* The minor of a 3 x 3 matrix at a row and a column in its middle has been taken.
C29_Witness ==
    /\ mx.op = "minor"
    /\ mx.pc = "done"
    /\ Len(mx.args.self) = 3
    /\ mx.args.i = 1
    /\ mx.args.j = 1
    /\ mx.out.value # None

\* The minor of a 1 x 1 matrix has been refused.
C29_SingleRefused ==
    /\ mx.op = "minor"
    /\ mx.pc = "done"
    /\ Len(mx.args.self) = 1
    /\ mx.out.value = None

\* The sum over k of self[i][k] * v[k], and the sum over i of v[i] * self[i][j].
RowTimesColumn(self, i, v) ==
    LET term[k \in 0..Len(v)] ==
            IF k = 0 THEN F_zero ELSE F_add(term[k - 1], F_mul(self[i][k], v[k]))
    IN term[Len(v)]

RowTimesMatrix(v, self, j) ==
    LET term[i \in 0..Len(v)] ==
            IF i = 0 THEN F_zero ELSE F_add(term[i - 1], F_mul(v[i], self[i][j]))
    IN term[Len(v)]

MulColVecCalled == mx.op = "mul_col_vec" /\ mx.pc = "done"
MulRowVecAtLeftCalled == mx.op = "mul_row_vec_at_left" /\ mx.pc = "done"

\* C26: mul_col_vec on a matrix of r rows and c columns returns Some(w), w of
\* length r with w[i] the sum over k of self[i][k] * v[k], exactly when v has
\* length c, and None otherwise.
C26_MulColVec ==
    MulColVecCalled =>
        LET self == mx.args.self
            v == mx.args.v
        IN IF Len(v) = num_columns(self)
           THEN mx.out = Some([i \in 1..num_rows(self) |-> RowTimesColumn(self, i, v)])
           ELSE mx.out = None

\* A vector as long as the rows of a one-row matrix has been refused.
C26_FittingVectorRefused ==
    /\ MulColVecCalled
    /\ num_rows(mx.args.self) = 1
    /\ num_columns(mx.args.self) = 2
    /\ Len(mx.args.v) = 2
    /\ mx.out = None

\* A vector longer than the rows of a one-column matrix has been multiplied.
C26_UnfittingVectorMultiplied ==
    /\ MulColVecCalled
    /\ num_rows(mx.args.self) = 2
    /\ num_columns(mx.args.self) = 1
    /\ Len(mx.args.v) = 2
    /\ mx.out # None

\* On a square matrix mul_col_vec is the product with the column vector.
C26_SquareProduct ==
    MulColVecCalled /\ is_square(mx.args.self) =>
        LET self == mx.args.self
            v == mx.args.v
        IN IF Len(v) = num_columns(self)
           THEN mx.out = Some([i \in 1..num_rows(self) |-> RowTimesColumn(self, i, v)])
           ELSE mx.out = None

\* C27: mul_row_vec_at_left on a matrix of r rows and c columns returns
\* Some(w), w of length c with w[j] the sum over i of v[i] * self[i][j],
\* exactly when v has length r, and None otherwise, and never panics; for an
\* invertible square matrix, multiplying by the matrix and then by its
\* inverse, or the other way round, gives the vector back.
C27_MulRowVecAtLeft ==
    MulRowVecAtLeftCalled =>
        LET self == mx.args.self
            v == mx.args.v
        IN /\ ~mx.out.panic
           /\ IF Len(v) = num_rows(self)
              THEN mx.out.value
                     = Some([j \in 1..num_columns(self) |-> RowTimesMatrix(v, self, j)])
              ELSE mx.out.value = None
           /\ (is_square(self) /\ Len(v) = num_rows(self) /\ is_some(invert(self))) =>
                 /\ mul_row_vec_at_left(unwrap(invert(self)), unwrap(mx.out.value))
                      = Returned(Some(v))
                 /\ mul_row_vec_at_left(self,
                        unwrap(mul_row_vec_at_left(unwrap(invert(self)), v).value))
                      = Returned(Some(v))

\* The product of a row vector and a matrix with more rows than columns has panicked.
C27_Panicked ==
    /\ MulRowVecAtLeftCalled
    /\ num_rows(mx.args.self) = 2
    /\ num_columns(mx.args.self) = 1
    /\ Len(mx.args.v) = 2
    /\ mx.out.panic

\* The product of a row vector and a matrix with more columns than rows has
\* come back with as many entries as the matrix has rows.
C27_Truncated ==
    /\ MulRowVecAtLeftCalled
    /\ num_rows(mx.args.self) = 1
    /\ num_columns(mx.args.self) = 2
    /\ Len(mx.args.v) = 1
    /\ ~mx.out.panic
    /\ mx.out.value # None
    /\ Len(mx.out.value[1]) = 1

\* On a square matrix mul_row_vec_at_left is the product with the row vector,
\* and an invertible matrix followed by its inverse gives the vector back.
C27_SquareProduct ==
    MulRowVecAtLeftCalled /\ is_square(mx.args.self) =>
        LET self == mx.args.self
            v == mx.args.v
        IN /\ ~mx.out.panic
           /\ IF Len(v) = num_rows(self)
              THEN mx.out.value
                     = Some([j \in 1..num_columns(self) |-> RowTimesMatrix(v, self, j)])
              ELSE mx.out.value = None
           /\ (Len(v) = num_rows(self) /\ is_some(invert(self))) =>
                 /\ mul_row_vec_at_left(unwrap(invert(self)), unwrap(mx.out.value))
                      = Returned(Some(v))
                 /\ mul_row_vec_at_left(self,
                        unwrap(mul_row_vec_at_left(unwrap(invert(self)), v).value))
                      = Returned(Some(v))

\* One step validate is due to make on its arguments: its name, whether it
\* is a call into the ledger, its arguments and the result it gives.
Due(name, is_ledger_call, args, result) ==
    [step |-> name, ledger_call |-> is_ledger_call, args |-> args, result |-> result]

\* The steps of validate in the order of C30, each with the result it gives
\* on the arguments of the call; the steps after a failing shape check, whose
\* arguments the shape check guards, are left out.
DueSteps ==
    LET p == vin.post
        body == p.body
        sig == has_valid_authorization_signature(p)
        shape_ok ==
            /\ is_some(body.asset_id) = (Len(body.sources) + Len(body.sinks) > 0)
            /\ Len(vin.source_accounts) = Len(body.sources)
            /\ Len(vin.sink_accounts) = Len(body.sinks)
        first ==
            <<Due("has_valid_authorization_signature", FALSE, <<>>,
                  IF is_ok(sig) THEN Ok
                  ELSE Err("InvalidAuthorizationSignature", <<sig.tag>>)),
              Due("check_shape", FALSE, <<>>,
                  IF shape_ok THEN Ok ELSE Err("InvalidShape", <<>>))>>
    IN
    IF ~shape_ok THEN first
    ELSE
    LET src_pairs == PositionalPairs(vin.source_accounts, body.sources)
        snk_pairs == PositionalPairs(vin.sink_accounts, body.sinks)
        src == IF Len(body.sources) = 0 THEN <<>>
               ELSE <<Due("check_source_accounts", TRUE,
                          <<unwrap(body.asset_id), src_pairs>>,
                          check_source_accounts(UsedLedger, unwrap(body.asset_id),
                                                src_pairs).result)>>
        snk == IF Len(body.sinks) = 0 THEN <<>>
               ELSE <<Due("check_sink_accounts", TRUE,
                          <<unwrap(body.asset_id), snk_pairs>>,
                          check_sink_accounts(UsedLedger, unwrap(body.asset_id),
                                              snk_pairs).result)>>
        unique ==
            <<Due("all_unequal(nullifier)", FALSE, <<>>,
                  IF RelatedNullifiers(body.sender_posts)
                  THEN Err("DuplicateSpend", <<>>) ELSE Ok),
              Due("all_unequal(utxo)", FALSE, <<>>,
                  IF RelatedUtxos(body.receiver_posts)
                  THEN Err("DuplicateMint", <<>>) ELSE Ok)>>
        senders ==
            [i \in DOMAIN body.sender_posts |->
                Due("SenderPost::validate", TRUE, <<body.sender_posts[i]>>,
                    SenderPost_validate(body.sender_posts[i], UsedLedger).result)]
        receivers ==
            [i \in DOMAIN body.receiver_posts |->
                Due("ReceiverPost::validate", TRUE, <<body.receiver_posts[i]>>,
                    ReceiverPost_validate(body.receiver_posts[i], UsedLedger).result)]
        proof ==
            <<Due("is_valid", TRUE, <<ExpectedRef>>, is_valid(UsedLedger, ExpectedRef).result)>>
    IN first \o src \o snk \o unique \o senders \o receivers \o proof

\* The due steps up to and including the first that fails.
UpToFirstFailure(steps) ==
    LET failing == {i \in DOMAIN steps : ~is_ok(steps[i].result)}
    IN IF failing = {} THEN steps
       ELSE SubSeq(steps, 1, CHOOSE i \in failing : \A k \in failing : i <= k)

\* C30: validate runs, in this order, the signature check, the check of the
\* asset id and the account-list lengths, check_source_accounts,
\* check_sink_accounts, the duplicate-nullifier check, the duplicate-UTXO
\* check, the validation of each sender post in order, of each receiver post
\* in order, and is_valid; it stops at the first step that fails, returns
\* the error of that step and executes no later step.
C30_FirstFailingStep ==
    Done =>
        LET t == vout.trace
            run == UpToFirstFailure(DueSteps)
        IN
        /\ Len(t) = Len(run)
        /\ \A i \in DOMAIN run :
              t[i] = Step(run[i].step, run[i].ledger_call, run[i].args, is_ok(run[i].result))
        /\ vout.result = run[Len(run)].result
        /\ \A i \in 1..(Len(t) - 1) : t[i].ok
        /\ (is_ok(vout.result) <=> Len(t) = Len(DueSteps) /\ t[Len(t)].ok)

\* A post with related nullifiers and related UTXOs, sources and a valid
\* signature has been refused with DuplicateSpend, the duplicate-UTXO check
\* not made.
C30_Witness ==
    /\ Done
    /\ RelatedNullifiers(vin.post.body.sender_posts)
    /\ RelatedUtxos(vin.post.body.receiver_posts)
    /\ vout.result = Err("DuplicateSpend", <<>>)
    /\ At(vout.trace, "check_source_accounts") # {}
    /\ At(vout.trace, "all_unequal(utxo)") = {}

\* A post whose second sender post is spent and whose receiver post is
\* registered has been refused with the sender's error after two sender
\* validations, no receiver post validated.
C30_SenderBeforeReceiverReached ==
    /\ Done
    /\ vout.result = Err("Sender", <<"AssetSpent">>)
    /\ Count(vout.trace, "SenderPost::validate") = 2
    /\ Count(vout.trace, "ReceiverPost::validate") = 0
    /\ \E i \in DOMAIN vin.post.body.receiver_posts :
          ~is_ok(ReceiverPost_validate(vin.post.body.receiver_posts[i], UsedLedger).result)

\* The arguments of the successful calls of `name` in trace t.
Succeeded(t, name) == {t[i].args[1] : i \in {i \in DOMAIN t : t[i].step = name /\ t[i].ok}}

\* The error the ledger gives for a failed call of `name`.
LedgerErrorOf(name) == Err("LedgerError", <<name>>)

\* C31: post has no rollback: when a step of the mutation sequence fails,
\* post returns the error of that step, makes no later call, and the
\* nullifiers spent and the UTXOs registered by the calls before it stay in
\* the ledger, the balances not updated.
C31_NoRollback ==
    [][\A k \in Keys : PostedNow(k) /\ slots'[k].state = "post_failed" =>
          LET key == unwrap(slots[k].key)
              t == slots'[k].trace
          IN
          /\ t # <<>>
          /\ FollowsOrder(key, t)
          /\ ~t[Len(t)].ok
          /\ slots'[k].result = LedgerErrorOf(t[Len(t)].step)
          /\ slots'[k].event = None
          /\ ledger'.nullifiers = ledger.nullifiers \cup Succeeded(t, "spend")
          /\ ledger'.utxos = ledger.utxos \cup Succeeded(t, "register")
          /\ ledger'.balances = ledger.balances
          /\ (t[Len(t)].step = "register" =>
                Succeeded(t, "spend")
                    = {key.sender_posting_keys[i].nullifier :
                          i \in DOMAIN key.sender_posting_keys})
          /\ (t[Len(t)].step = "update_public_balances" =>
                /\ Succeeded(t, "spend")
                    = {key.sender_posting_keys[i].nullifier :
                          i \in DOMAIN key.sender_posting_keys}
                /\ Succeeded(t, "register")
                    = {key.receiver_posting_keys[i].utxo :
                          i \in DOMAIN key.receiver_posting_keys})]_vars

\* A post has failed in update_public_balances after it spent a nullifier and
\* registered a UTXO, and both are in the ledger.
C31_Witness ==
    \E k \in Keys :
        /\ slots[k].state = "post_failed"
        /\ slots[k].trace[Len(slots[k].trace)].step = "update_public_balances"
        /\ Succeeded(slots[k].trace, "spend") # {}
        /\ Succeeded(slots[k].trace, "register") # {}
        /\ Succeeded(slots[k].trace, "spend") \subseteq ledger.nullifiers
        /\ Succeeded(slots[k].trace, "register") \subseteq ledger.utxos

\* A post has failed in register after it spent a nullifier, which is in the ledger.
C31_ReceiverFailureReached ==
    \E k \in Keys :
        /\ slots[k].state = "post_failed"
        /\ slots[k].trace[Len(slots[k].trace)].step = "register"
        /\ Succeeded(slots[k].trace, "spend") # {}
        /\ Succeeded(slots[k].trace, "spend") \subseteq ledger.nullifiers

IntoPostCalled == tx.pc \in {"posted", "done"} /\ tx.call.op = "into_post"

\* The Transfer built, with `authorization` in the place of its authorization.
WithAuthorization(t, authorization) ==
    new_unchecked(authorization, t.asset_id, t.sources, t.senders, t.receivers, t.sinks)

\* C32: in into_post a failure of the prover is returned as the proof
\* system's error: with authorization required, present and a spending key
\* supplied the prover is called before signing, so its failure is returned
\* even when the authorization does not belong to the spending key; with
\* none of the three its failure is returned; in the six other combinations
\* the prover is not called and Ok(None) is returned even with a prover
\* that would fail.
C32_ProvingFailures ==
    IntoPostCalled =>
        LET t == unwrap(tx.transfer)
            required == Len(t.senders) > 0
            has_authorization == is_some(t.authorization)
            has_key == is_some(tx.call.spending_key)
            fails == tx.call.prover = "error"
            signing == required /\ has_authorization /\ has_key
            plain == ~required /\ ~has_authorization /\ ~has_key
        IN
        /\ signing \/ plain =>
              /\ tx.call.proved
              /\ (fails => tx.call.result = Err("ProofSystemError", <<>>) /\ tx.call.post = None)
              /\ (~fails => tx.call.result = Ok)
        /\ ~signing /\ ~plain =>
              /\ ~tx.call.proved
              /\ tx.call.result = Ok
              /\ tx.call.post = None
        /\ (tx.call.result.tag = "ProofSystemError" => fails /\ (signing \/ plain))
        /\ \A authorization \in OptionalAuthorizations :
              LET u == WithAuthorization(t, authorization)
                  r == into_post(u, tx.call.spending_key, tx.call.sink_accounts, tx.call.prover)
                  chosen == (required /\ is_some(authorization) /\ has_key)
                                \/ (~required /\ ~is_some(authorization) /\ ~has_key)
              IN IF chosen
                 THEN r.proved /\ (fails <=> r.result = Err("ProofSystemError", <<>>))
                 ELSE r = Converted(Ok, None, FALSE)

\* into_post has returned the prover's error for an authorization that does
\* not belong to the spending key supplied.
C32_Witness ==
    /\ IntoPostCalled
    /\ tx.call.prover = "error"
    /\ tx.call.result = Err("ProofSystemError", <<>>)
    /\ Len(unwrap(tx.transfer).senders) > 0
    /\ is_some(tx.call.spending_key)
    /\ unwrap(unwrap(tx.transfer).authorization).spending_key # unwrap(tx.call.spending_key)

\* into_post has returned Ok(None) without calling a prover that would fail.
C32_MismatchReached ==
    /\ IntoPostCalled
    /\ tx.call.prover = "error"
    /\ tx.call.result = Ok
    /\ tx.call.post = None
    /\ ~tx.call.proved
    /\ Len(unwrap(tx.transfer).senders) = 0
    /\ is_some(tx.call.spending_key)

\* into_post has returned the prover's error for a transfer without senders.
C32_PlainFailureReached ==
    /\ IntoPostCalled
    /\ tx.call.prover = "error"
    /\ tx.call.result = Err("ProofSystemError", <<>>)
    /\ Len(unwrap(tx.transfer).senders) = 0
    /\ tx.call.spending_key = None

CircuitBuilt == tx.call.op \in {"unknown_constraints", "generate_context", "known_constraints"}

\* The variables of the circuit built by the call made.
CircuitVariables ==
    IF tx.call.op = "known_constraints" THEN new_known(unwrap(tx.transfer))
    ELSE new_unknown(ArgsShape)

\* The positions of the assertions of one kind.
AssertionsOf(compiler, kind) == {i \in DOMAIN compiler : compiler[i].kind = kind}

\* The sums of the circuit built are over every sender and source on the
\* input side and every receiver and sink on the output side, and one
\* equality of the two sums is asserted.
SumsOverAllValues ==
    LET var == CircuitVariables
        in == input_sum(var.authorization, var.senders, var.sources)
        out == output_sum(var.receivers, var.sinks)
    IN
    /\ in.terms = [i \in DOMAIN var.senders |-> var.senders[i].value.asset.value]
                     \o [i \in DOMAIN var.sources |-> var.sources[i].value]
    /\ out.terms = [i \in DOMAIN var.receivers |-> var.receivers[i].value.asset.value]
                      \o [i \in DOMAIN var.sinks |-> var.sinks[i].value]
    /\ \E i \in DOMAIN tx.call.compiler :
          /\ AssertionsOf(tx.call.compiler, "assert_eq") = {i}
          /\ tx.call.compiler[i].terms = <<in.sum, out.sum>>

\* value_sum has a value to unwrap on both sides of the circuit built.
SumsNonEmpty ==
    LET var == CircuitVariables
        in == input_sum(var.authorization, var.senders, var.sources)
        out == output_sum(var.receivers, var.sinks)
    IN
    /\ in.terms # <<>>
    /\ out.terms # <<>>
    /\ is_some(in.sum)
    /\ is_some(out.sum)

\* C33: for every shape on which unknown_constraints, generate_context or
\* known_constraints can be called, input_sum and output_sum each hand at
\* least one value to value_sum, whose unwrap therefore does not panic; the
\* input sum is over every sender value and every source amount, the output
\* sum over every receiver value and every sink amount, and one equality of
\* the two sums is asserted.
C33_SumsOverNonEmptySets == CircuitBuilt => SumsNonEmpty /\ SumsOverAllValues

\* unknown_constraints has been called for a shape without sources and
\* senders, and value_sum was handed no value on the input side.
C33_EmptyInputReached ==
    /\ tx.call.op = "unknown_constraints"
    /\ ArgsShape.SOURCES + ArgsShape.SENDERS = 0
    /\ ArgsShape.RECEIVERS > 0
    /\ \E i \in DOMAIN tx.call.compiler :
          /\ tx.call.compiler[i].kind = "assert_eq"
          /\ tx.call.compiler[i].terms[1] = None

\* generate_context has been called for a shape without receivers and sinks,
\* and value_sum was handed no value on the output side.
C33_EmptyOutputReached ==
    /\ tx.call.op = "generate_context"
    /\ ArgsShape.RECEIVERS + ArgsShape.SINKS = 0
    /\ ArgsShape.SENDERS > 0
    /\ \E i \in DOMAIN tx.call.compiler :
          /\ tx.call.compiler[i].kind = "assert_eq"
          /\ tx.call.compiler[i].terms[2] = None

\* For a shape with both sides non-empty, and for every Transfer built, the
\* sums are over non-empty sets of all the values.
C33_NonEmptyShapes ==
    (CircuitBuilt /\ ArgsShape.SOURCES + ArgsShape.SENDERS > 0
                  /\ ArgsShape.RECEIVERS + ArgsShape.SINKS > 0) =>
        SumsNonEmpty /\ SumsOverAllValues

\* Every circuit filled with the values of a Transfer has non-empty sums.
C33_KnownConstraints ==
    tx.call.op = "known_constraints" => SumsNonEmpty /\ SumsOverAllValues

\* into_post has returned Ok(Some(post)).
PostReturned == tx.call.op = "into_post" /\ is_some(tx.call.post)

\* The post carries a signature exactly when it has sender posts, its
\* sink_accounts are the list the signature was made over, and its own
\* signature check accepts it.
SelfConsistent(post) ==
    /\ is_some(post.authorization_signature) <=> Len(post.body.sender_posts) > 0
    /\ is_some(post.authorization_signature) =>
          /\ unwrap(post.authorization_signature).message.body = post.body
          /\ unwrap(post.authorization_signature).message.sink_accounts = post.sink_accounts
    /\ is_ok(has_valid_authorization_signature(post))

\* C34: every post that into_post returns as Ok(Some(post)) carries an
\* authorization signature exactly when it has a sender post, its
\* sink_accounts field is the list the signature was made over, and
\* has_valid_authorization_signature answers Ok for it, whatever the shape
\* and the sink_accounts argument of into_post.
C34_ReturnedPostSelfConsistent == PostReturned => SelfConsistent(unwrap(tx.call.post))

\* into_post has returned, for a transfer without sinks and a non-empty
\* sink_accounts argument, a post signed over that argument which carries
\* no sink accounts and fails its own signature check.
C34_SignedOverDroppedAccounts ==
    /\ PostReturned
    /\ Len(unwrap(tx.transfer).sinks) = 0
    /\ tx.call.sink_accounts = <<"alice">>
    /\ unwrap(tx.call.post).sink_accounts = <<>>
    /\ is_some(unwrap(tx.call.post).authorization_signature)
    /\ unwrap(unwrap(tx.call.post).authorization_signature).message.sink_accounts = <<"alice">>
    /\ has_valid_authorization_signature(unwrap(tx.call.post)) = Err("BadSignature", <<>>)

\* The returned post is self-consistent when the transfer has sinks or the
\* sink_accounts argument is empty.
C34_ConsistentWithSinks ==
    PostReturned /\ (Len(unwrap(tx.transfer).sinks) > 0 \/ tx.call.sink_accounts = <<>>) =>
        SelfConsistent(unwrap(tx.call.post))

\* The input side and the output side of the post handed to validate.
InputSide(post) == Len(post.body.sources) + Len(post.body.sender_posts)
OutputSide(post) == Len(post.body.receiver_posts) + Len(post.body.sinks)

\* C35: every post that passes validate has sources + senders > 0 and
\* receivers + sinks > 0; validate rejects a post with an empty side before
\* it produces a key, and before it asks the ledger's is_valid.
C35_ValidatedPostHasBothSides ==
    Done =>
        /\ (is_ok(vout.result) => InputSide(vin.post) > 0 /\ OutputSide(vin.post) > 0)
        /\ (InputSide(vin.post) = 0 \/ OutputSide(vin.post) = 0 =>
                /\ vout.key = None
                /\ At(vout.trace, "is_valid") = {})

\* validate has returned a key for a post without any participant.
C35_EmptyPostValidated ==
    /\ Done
    /\ is_ok(vout.result)
    /\ is_some(vout.key)
    /\ InputSide(vin.post) = 0
    /\ OutputSide(vin.post) = 0

\* validate has asked is_valid about a post with an empty input side, and
\* returned the answer of is_valid.
C35_LeftToIsValid ==
    /\ Done
    /\ InputSide(vin.post) = 0
    /\ OutputSide(vin.post) > 0
    /\ At(vout.trace, "is_valid") # {}
    /\ vout.result = Err("InvalidProof", <<>>)

\* validate returns a key for a post with an empty side exactly when every
\* other check passes and is_valid accepts its proof.
C35_OnlyIsValidRejects ==
    Done /\ (InputSide(vin.post) = 0 \/ OutputSide(vin.post) = 0) =>
        (is_ok(vout.result) <=>
            /\ At(vout.trace, "is_valid") # {}
            /\ vin.post.body.proof = "valid_proof")

\* C36: check_public_participants unwraps the asset id only after the check
\* that its presence equals (sources + sinks > 0): once that check and the
\* length checks passed, check_source_accounts is called iff sources > 0 and
\* check_sink_accounts iff sinks > 0 (and the sources were accepted), and no
\* ledger call is made without an asset id; every key validate produces
\* holds one source key per source and one sink key per sink, so a key
\* without asset id has no source and no sink keys and post, which skips
\* update_public_balances for it, skips no validated source or sink.
C36_NoParticipantDropped ==
    Done /\ vout.trace[1].ok =>
        LET body == vin.post.body
            t == vout.trace
            sources == Len(body.sources)
            sinks == Len(body.sinks)
            shape_ok ==
                /\ is_some(body.asset_id) = (sources + sinks > 0)
                /\ Len(vin.source_accounts) = sources
                /\ Len(vin.sink_accounts) = sinks
            called == At(t, "check_source_accounts") \cup At(t, "check_sink_accounts")
        IN
        /\ (called # {} => shape_ok /\ is_some(body.asset_id))
        /\ \A i \in called : t[i].args[1] = unwrap(body.asset_id)
        /\ (shape_ok =>
              /\ (At(t, "check_source_accounts") # {} <=> sources > 0)
              /\ (At(t, "check_sink_accounts") # {} <=>
                    sinks > 0 /\ \A i \in At(t, "check_source_accounts") : t[i].ok))
        /\ (is_some(vout.key) =>
              LET key == unwrap(vout.key)
                  posted == TransferPostingKey_post(key, ledger)
              IN
              /\ key.asset_id = body.asset_id
              /\ key.source_posting_keys = PositionalPairs(vin.source_accounts, body.sources)
              /\ key.sink_posting_keys = PositionalPairs(vin.sink_accounts, body.sinks)
              /\ (~is_some(key.asset_id) =>
                    key.source_posting_keys = <<>> /\ key.sink_posting_keys = <<>>)
              /\ (At(posted.trace, "update_public_balances") = {} /\ is_ok(posted.result) =>
                    key.source_posting_keys = <<>> /\ key.sink_posting_keys = <<>>))

\* validate has produced a key with a source key and a sink key.
C36_Witness ==
    /\ Done
    /\ is_some(vout.key)
    /\ Len(unwrap(vout.key).source_posting_keys) = 1
    /\ Len(unwrap(vout.key).sink_posting_keys) = 1
    /\ At(vout.trace, "check_source_accounts") # {}
    /\ At(vout.trace, "check_sink_accounts") # {}

\* validate has produced a key without asset id, sources and sinks.
C36_PrivateKeyReached ==
    /\ Done
    /\ is_some(vout.key)
    /\ unwrap(vout.key).asset_id = None
    /\ unwrap(vout.key).source_posting_keys = <<>>
    /\ Len(unwrap(vout.key).sender_posting_keys) > 0

\* The kind and the number of terms of each assertion, in the order added.
Structure(compiler) ==
    [i \in DOMAIN compiler |-> [kind |-> compiler[i].kind, terms |-> Len(compiler[i].terms)]]

\* The allocation mode of each variable of a TransferVar.
Modes(var) ==
    [authorization |-> [i \in DOMAIN var.authorization |-> var.authorization[i].mode],
     asset_id |-> [i \in DOMAIN var.asset_id |-> var.asset_id[i].mode],
     sources |-> [i \in DOMAIN var.sources |-> var.sources[i].mode],
     senders |-> [i \in DOMAIN var.senders |-> var.senders[i].mode],
     receivers |-> [i \in DOMAIN var.receivers |-> var.receivers[i].mode],
     sinks |-> [i \in DOMAIN var.sinks |-> var.sinks[i].mode]]

\* C37: for every Transfer built by Transfer::new, the TransferVar of unknown
\* variables of its shape and the TransferVar of its known values have an
\* authorization variable under the same condition, a public asset-id
\* variable under the same condition and as many source, sender, receiver
\* and sink variables, each in the same mode, and build_validity_constraints
\* emits the same sequence of assertions for both.
C37_CompiledCircuitMatchesProved ==
    tx.call.op = "known_constraints" =>
        LET t == unwrap(tx.transfer)
            S == ShapeOf(t.sources, t.senders, t.receivers, t.sinks)
            known == new_known(t)
            unknown == new_unknown(S)
        IN
        /\ is_some(unknown.authorization) <=> is_some(known.authorization)
        /\ is_some(unknown.asset_id) <=> is_some(known.asset_id)
        /\ Len(unknown.sources) = Len(known.sources)
        /\ Len(unknown.senders) = Len(known.senders)
        /\ Len(unknown.receivers) = Len(known.receivers)
        /\ Len(unknown.sinks) = Len(known.sinks)
        /\ Modes(unknown) = Modes(known)
        /\ Structure(unknown_constraints(S)) = Structure(tx.call.compiler)
        /\ Structure(build_validity_constraints(unknown))
              = Structure(build_validity_constraints(known))

\* The circuit of a transfer with two senders, a receiver and a sink, and so
\* with an authorization and a public asset id, has been filled.
C37_Witness ==
    /\ tx.call.op = "known_constraints"
    /\ Len(unwrap(tx.transfer).senders) = 2
    /\ Len(unwrap(tx.transfer).receivers) = 1
    /\ Len(unwrap(tx.transfer).sinks) = 1
    /\ Len(unwrap(tx.transfer).sources) = 0
    /\ AssertionsOf(tx.call.compiler, "assert_all_eq_to_base") # {}
    /\ AssertionsOf(tx.call.compiler, "assert_authorized") # {}

\* The circuit of a transfer without public participants has been filled.
C37_PrivateReached ==
    /\ tx.call.op = "known_constraints"
    /\ unwrap(tx.transfer).asset_id = None
    /\ AssertionsOf(tx.call.compiler, "assert_all_eq") # {}

\* The matrix without its row i and its last column.
WithoutRowAndLastColumn(m, i) ==
    [a \in 1..(Len(m) - 1) |->
        SubSeq(m[IF a < i THEN a ELSE a + 1], 1, Len(m) - 1)]

\* Every one of the first n - 1 columns has a pivot after the elimination of
\* the columns before it: the first n - 1 columns are linearly independent.
PivotInEveryColumn(m) ==
    \/ Len(m) = 1
    \/ \E i \in 1..Len(m) : Determinant(WithoutRowAndLastColumn(m, i)) # 0

\* Zero below the diagonal, non-zero on the diagonal but for its last entry.
IsUpperTriangular(u) ==
    /\ \A i \in 1..Len(u) : \A j \in 1..(i - 1) : u[i][j] = F_zero
    /\ \A i \in 1..(Len(u) - 1) : u[i][i] # F_zero

\* C38: upper_triangular on an n x n matrix with an identity shadow returns
\* None when one of the first n - 1 columns has no pivot, otherwise an upper
\* triangular matrix U with the first n - 1 diagonal entries non-zero, and
\* leaves in the shadow a matrix S with S * self = U; reduce_to_identity on U
\* and S returns the identity and leaves the inverse of self in the shadow,
\* or returns None when a diagonal entry of U is zero.
C38_TriangularThenIdentity ==
    /\ (mx.pc = "triangular" =>
          LET self == mx.args.self IN
          /\ ~mx.out.panic
          /\ mx.out.result # None <=> PivotInEveryColumn(self)
          /\ mx.out.result = None => mx.out.shadow = mx.args.shadow
          /\ mx.out.result # None =>
                LET U == unwrap(mx.out.result)
                    S == mx.out.shadow
                IN /\ Len(U) = Len(self)
                   /\ \A i \in 1..Len(U) : Len(U[i]) = Len(self)
                   /\ IsUpperTriangular(U)
                   /\ Product(S, self) = U)
    /\ (mx.op = "reduce_to_identity" /\ mx.pc = "done" =>
          LET U == mx.args.self
              n == Len(U)
          IN
          /\ ~mx.out.panic
          /\ mx.out.result = None <=> \E i \in 1..n : U[i][i] = F_zero
          /\ mx.out.result # None =>
                /\ unwrap(mx.out.result) = identity(n)
                /\ Product(mx.out.shadow, mx.args.original) = identity(n)
                /\ Product(mx.args.original, mx.out.shadow) = identity(n)
                /\ Some(mx.out.shadow) = invert(mx.args.original))

\* A 3 x 3 matrix with a zero at the head of its diagonal has been brought to
\* upper triangular form and reduced to the identity.
C38_Witness ==
    /\ mx.op = "reduce_to_identity"
    /\ mx.pc = "done"
    /\ Len(mx.args.original) = 3
    /\ mx.args.original[1][1] = 0
    /\ mx.args.self # mx.args.original
    /\ mx.out.result = Some(identity(3))

\* upper_triangular has returned None for a 3 x 3 matrix.
C38_NoPivotReached ==
    /\ mx.pc = "triangular"
    /\ Len(mx.args.self) = 3
    /\ mx.out.result = None

\* reduce_to_identity has returned None for an upper triangular matrix whose
\* last diagonal entry is zero.
C38_ZeroDiagonalReached ==
    /\ mx.op = "reduce_to_identity"
    /\ mx.pc = "done"
    /\ Len(mx.args.self) = 3
    /\ mx.args.self[3][3] = 0
    /\ mx.out.result = None

====
